---- MODULE Spec2Model ----
(***************************************************************************)
(* Exit-strategy simulation and portfolio-analytics engine of CryptoVault  *)
(* (utils/portfolioCalculations.ts, kept in src/unnamed/part_006).         *)
(*                                                                         *)
(* JavaScript numbers are modelled as exact rationals <<n, d>> with d > 0  *)
(* in lowest terms, so that equal numbers are equal values; IEEE-754       *)
(* rounding is not modelled.  The only mutable state of the engine is the  *)
(* module-level table STRATEGY_CONFIG and the stage arrays reachable from  *)
(* the arguments of a call; every call is one action, which records its    *)
(* arguments before and after the call and its result.                     *)
(***************************************************************************)
EXTENDS Integers, Sequences, FiniteSets, TLC

VARIABLES STRATEGY_CONFIG, last

vars == <<STRATEGY_CONFIG, last>>

(***************************************************************************)
(* Numbers                                                                 *)
(***************************************************************************)
RECURSIVE Gcd(_, _)
Gcd(a, b) == IF b = 0 THEN a ELSE Gcd(b, a % b)

IntAbs(n) == IF n < 0 THEN -n ELSE n

Sign(d) == IF d < 0 THEN -1 ELSE 1

Reduce(n, d, g) == <<n \div g, d \div g>>

\* the rational n/d (d # 0) in lowest terms with a positive denominator
Frac(n, d) == Reduce(Sign(d) * n, Sign(d) * d, Gcd(IntAbs(n), IntAbs(d)))

Num(n) == <<n, 1>>

Zero == Num(0)
One == Num(1)
Hundred == Num(100)

\* sums and comparisons over the least common denominator, g being the
\* greatest common divisor of the two denominators
AddOver(x, y, g) == Frac(x[1] * (y[2] \div g) + y[1] * (x[2] \div g), (x[2] \div g) * y[2])
SubOver(x, y, g) == Frac(x[1] * (y[2] \div g) - y[1] * (x[2] \div g), (x[2] \div g) * y[2])
LtOver(x, y, g) == x[1] * (y[2] \div g) < y[1] * (x[2] \div g)
LeOver(x, y, g) == x[1] * (y[2] \div g) <= y[1] * (x[2] \div g)

Add(x, y) == AddOver(x, y, Gcd(x[2], y[2]))
Sub(x, y) == SubOver(x, y, Gcd(x[2], y[2]))
Mul(x, y) == Frac(x[1] * y[1], x[2] * y[2])
\* x / y for y # 0 (every division of the modelled code is guarded)
Div(x, y) == Frac(x[1] * y[2], x[2] * y[1])
Lt(x, y) == LtOver(x, y, Gcd(x[2], y[2]))
Le(x, y) == LeOver(x, y, Gcd(x[2], y[2]))
Gt(x, y) == Lt(y, x)
Ge(x, y) == Le(y, x)
Abs(x) == <<IntAbs(x[1]), x[2]>>

RECURSIVE SumSeq(_)
SumSeq(s) == IF s = <<>> THEN Zero ELSE Add(Head(s), SumSeq(Tail(s)))

(***************************************************************************)
(* Optional values: undefined / a defined stage array; the null token      *)
(***************************************************************************)
Undefined == [defined |-> FALSE]
Defined(list) == [defined |-> TRUE, list |-> list]
NULL == [null |-> TRUE]

Stage(p, m) == [percentage |-> p, multiplier |-> m]

(***************************************************************************)
(* STRATEGY_CONFIG: the fixed stage tables (module-level, shared by every  *)
(* call)                                                                   *)
(***************************************************************************)
InitialStrategyConfig ==
    [ladder       |-> <<Stage(Num(25), Num(2)), Stage(Num(25), Num(4)),
                        Stage(Num(25), Num(8)), Stage(Num(25), Num(16))>>,
     conservative |-> <<Stage(Frac(3333, 100), Num(3)), Stage(Frac(3333, 100), Num(6)),
                        Stage(Frac(3333, 100), Num(10))>>,
     moonOrBust   |-> <<Stage(Num(25), Num(5)), Stage(Num(25), Num(10))>>]

FixedStrategies == {"ladder", "conservative", "moonOrBust"}

(***************************************************************************)
(* calculateTokenStrategy                                                  *)
(***************************************************************************)
\* the floating point tolerance 0.00001 of the stage loop
EPSILON == Frac(1, 100000)

\* const { amount = 0, ... } = token || {}
TokenFields(token) ==
    IF token = NULL
    THEN [amount |-> Zero, price |-> Zero, entryPrice |-> Zero,
          marketCap |-> Zero, targetMarketCap |-> Zero]
    ELSE [amount |-> token.amount, price |-> token.price, entryPrice |-> token.entryPrice,
          marketCap |-> token.marketCap, targetMarketCap |-> token.targetMarketCap]

\* a StrategyResult of the given exit value, with its profit
ResultWithProfit(currentValue, targetPrice, growthMultiplier, totalExitValue, initialInvestment, profit, profitStages) ==
    [currentValue |-> currentValue, targetPrice |-> targetPrice,
     growthMultiplier |-> growthMultiplier, totalExitValue |-> totalExitValue,
     profit |-> profit,
     profitPercentage |-> IF Gt(initialInvestment, Zero)
                          THEN Mul(Div(profit, initialInvestment), Hundred)
                          ELSE Zero,
     profitStages |-> profitStages]

\* profit = totalExitValue - initialInvestment, and the returned record
StrategyResult(currentValue, targetPrice, growthMultiplier, totalExitValue, initialInvestment, profitStages) ==
    ResultWithProfit(currentValue, targetPrice, growthMultiplier, totalExitValue,
                     initialInvestment, Sub(totalExitValue, initialInvestment), profitStages)

\* the guard on the market-cap fields alone
InvalidMarketCaps(f) == Le(f.marketCap, Zero) \/ Le(f.targetMarketCap, Zero)

\* the market-data guard of the degraded result
InvalidMarketData(f) ==
    Le(f.marketCap, Zero) \/ Le(f.targetMarketCap, Zero) \/ Le(f.entryPrice, Zero)

\* CapAt without the cap: every stage sells at its nominal price
CapAtNever(stage, nominal, entryPrice, targetPrice) ==
    [price |-> nominal, stage |-> stage]

\* a stage whose nominal price exceeds the target price is sold at the target
\* price, and the multiplier of the stage object itself is rewritten
CapAt(stage, nominal, entryPrice, targetPrice) ==
    IF Gt(nominal, targetPrice)
    THEN [price |-> targetPrice,
          stage |-> [stage EXCEPT !.multiplier = Div(targetPrice, entryPrice)]]
    ELSE [price |-> nominal, stage |-> stage]

\* let stagePrice = entryPrice * stage.multiplier, capped
CapStage(stage, entryPrice, targetPrice) ==
    CapAt(stage, Mul(entryPrice, stage.multiplier), entryPrice, targetPrice)

AmountToSell(amount, stage) == Mul(amount, Div(stage.percentage, Hundred))

\* StageSkipped that lets every stage through
StageSkippedNever(remainingAmount, amountToSell) == FALSE

\* if (remainingAmount - amountToSell < -0.00001) return;
StageSkipped(remainingAmount, amountToSell) ==
    Lt(Sub(remainingAmount, amountToSell), Sub(Zero, EPSILON))

\* SellFrom that forgets to reduce the remainder
SellFromKeeping(remainingAmount, amountToSell) == remainingAmount

\* remainingAmount -= amountToSell
SellFrom(remainingAmount, amountToSell) == Sub(remainingAmount, amountToSell)

\* the stage is sold: totals, remainder and the emitted StrategyStage
EmitStage(acc, stage, cap, amountToSell, value) ==
    [totalExitValue |-> Add(acc.totalExitValue, value),
     remainingAmount |-> SellFrom(acc.remainingAmount, amountToSell),
     profitStages |-> Append(acc.profitStages,
                             [percentage |-> stage.percentage,
                              amount |-> amountToSell,
                              multiplier |-> cap.stage.multiplier,
                              price |-> cap.price,
                              value |-> value]),
     stages |-> Append(acc.stages, cap.stage)]

\* SellStage that takes a skipped stage's amount off the remainder
SellStageCountingSkipped(acc, stage, cap, amountToSell) ==
    IF StageSkipped(acc.remainingAmount, amountToSell)
    THEN [acc EXCEPT !.stages = Append(@, cap.stage),
                     !.remainingAmount = Sub(@, amountToSell)]
    ELSE EmitStage(acc, stage, cap, amountToSell, Mul(amountToSell, cap.price))

\* the body of stages.forEach after the cap; acc.stages collects the stage
\* objects as the iteration leaves them
SellStage(acc, stage, cap, amountToSell) ==
    IF StageSkipped(acc.remainingAmount, amountToSell)
    THEN [acc EXCEPT !.stages = Append(@, cap.stage)]
    ELSE EmitStage(acc, stage, cap, amountToSell, Mul(amountToSell, cap.price))

\* one iteration of stages.forEach
ProcessStage(acc, stage, amount, entryPrice, targetPrice) ==
    SellStage(acc, stage, CapStage(stage, entryPrice, targetPrice),
              AmountToSell(amount, stage))

RECURSIVE StageLoop(_, _, _, _, _)
StageLoop(acc, stages, amount, entryPrice, targetPrice) ==
    IF stages = <<>>
    THEN acc
    ELSE StageLoop(ProcessStage(acc, Head(stages), amount, entryPrice, targetPrice),
                   Tail(stages), amount, entryPrice, targetPrice)

\* SellRemainder that leaves the remainder out of the total
SellRemainderDropped(totalExitValue, remainingAmount, targetPrice) == totalExitValue

\* the remainder above the tolerance is sold at the target price
SellRemainder(totalExitValue, remainingAmount, targetPrice) ==
    IF Gt(remainingAmount, EPSILON)
    THEN Add(totalExitValue, Mul(remainingAmount, targetPrice))
    ELSE totalExitValue

\* the degraded result of a token without valid market data
DegradedRun(f, stages, currentValue) ==
    [result |-> StrategyResult(currentValue, f.price, One, currentValue,
                               Mul(f.amount, f.entryPrice), Undefined),
     stages |-> stages,
     loop |-> [ran |-> FALSE]]

\* the result when no stage list is given ("All at Target")
AllAtTargetRun(f, stages, growthMultiplier, targetPrice) ==
    [result |-> StrategyResult(Mul(f.amount, f.price), targetPrice, growthMultiplier,
                               Mul(f.amount, targetPrice),
                               Mul(f.amount, f.entryPrice), Undefined),
     stages |-> stages,
     loop |-> [ran |-> FALSE]]

\* the result after the stage loop ended in acc
StagedRun(f, acc, growthMultiplier, targetPrice) ==
    [result |-> StrategyResult(Mul(f.amount, f.price), targetPrice, growthMultiplier,
                               SellRemainder(acc.totalExitValue, acc.remainingAmount,
                                             targetPrice),
                               Mul(f.amount, f.entryPrice), Defined(acc.profitStages)),
     stages |-> Defined(acc.stages),
     loop |-> [ran |-> TRUE, remainingAmount |-> acc.remainingAmount]]

\* ValidRun that tests only !stages, so that an empty list enters the stage loop
ValidRunEmptyStaged(f, stages, growthMultiplier, targetPrice) ==
    IF ~stages.defined
    THEN AllAtTargetRun(f, stages, growthMultiplier, targetPrice)
    ELSE StagedRun(f,
                   StageLoop([totalExitValue |-> Zero, remainingAmount |-> f.amount,
                              profitStages |-> <<>>, stages |-> <<>>],
                             stages.list, f.amount, f.entryPrice, targetPrice),
                   growthMultiplier, targetPrice)

\* the evaluation of a token with valid market data
ValidRun(f, stages, growthMultiplier, targetPrice) ==
    IF ~stages.defined \/ stages.list = <<>>
    THEN AllAtTargetRun(f, stages, growthMultiplier, targetPrice)
    ELSE StagedRun(f,
                   StageLoop([totalExitValue |-> Zero, remainingAmount |-> f.amount,
                              profitStages |-> <<>>, stages |-> <<>>],
                             stages.list, f.amount, f.entryPrice, targetPrice),
                   growthMultiplier, targetPrice)

\* targetPrice = price * growthMultiplier
RunAtGrowth(f, stages, growthMultiplier) ==
    ValidRun(f, stages, growthMultiplier, Mul(f.price, growthMultiplier))

RunOfFields(f, stages) ==
    IF InvalidMarketData(f)
    THEN DegradedRun(f, stages, Mul(f.amount, f.price))
    ELSE RunAtGrowth(f, stages, Div(f.targetMarketCap, f.marketCap))

\* calculateTokenStrategy(token, stages): the returned StrategyResult, the
\* stages argument as the call leaves it, and the final remainingAmount when
\* the stage loop ran
calculateTokenStrategy(token, stages) == RunOfFields(TokenFields(token), stages)

(***************************************************************************)
(* compareStrategies                                                       *)
(***************************************************************************)
EmptyResult ==
    [currentValue |-> Zero, targetPrice |-> Zero, growthMultiplier |-> Zero,
     totalExitValue |-> Zero, profit |-> Zero, profitPercentage |-> Zero,
     profitStages |-> Undefined]

\* progressiveConfig, were its progress in even quarters
ProgressiveConfigInQuarters ==
    <<[sellPercent |-> Num(15), progressPercent |-> Num(25)],
      [sellPercent |-> Num(20), progressPercent |-> Num(50)],
      [sellPercent |-> Num(25), progressPercent |-> Num(75)],
      [sellPercent |-> Num(40), progressPercent |-> Num(100)]>>

ProgressiveConfig ==
    <<[sellPercent |-> Num(15), progressPercent |-> Num(50)],
      [sellPercent |-> Num(20), progressPercent |-> Num(75)],
      [sellPercent |-> Num(25), progressPercent |-> Num(90)],
      [sellPercent |-> Num(40), progressPercent |-> Num(100)]>>

\* TargetPriceAtProgress without the progress: the price at the target itself
TargetPriceAtFullProgress(token, stage) ==
    Mul(token.price, Div(token.targetMarketCap, token.marketCap))

\* price * ((targetMarketCap * (progressPercent / 100)) / marketCap)
TargetPriceAtProgress(token, stage) ==
    Mul(token.price,
        Div(Mul(token.targetMarketCap, Div(stage.progressPercent, Hundred)),
            token.marketCap))

CanCalculate(token) ==
    /\ Gt(token.price, Zero) /\ Gt(token.entryPrice, Zero)
    /\ Gt(token.marketCap, Zero)
    /\ Gt(token.targetMarketCap, token.marketCap)

\* the stage list built for the 'progressive' strategy
ProgressiveStages(token) ==
    IF CanCalculate(token)
    THEN [i \in 1..Len(ProgressiveConfig) |->
            Stage(ProgressiveConfig[i].sellPercent,
                  Div(TargetPriceAtProgress(token, ProgressiveConfig[i]), token.entryPrice))]
    ELSE <<>>

\* Winner with a strict comparison: a tie goes to the benchmark
WinnerStrict(selectedTotal, allAtOnceTotal) ==
    IF Gt(selectedTotal, allAtOnceTotal) THEN "selectedStrategy" ELSE "allAtOnce"

Winner(selectedTotal, allAtOnceTotal) ==
    IF Ge(selectedTotal, allAtOnceTotal) THEN "selectedStrategy" ELSE "allAtOnce"

DifferencePercentage(difference, allAtOnceTotal) ==
    IF Gt(allAtOnceTotal, Zero) THEN Mul(Div(difference, allAtOnceTotal), Hundred) ELSE Zero

\* winner, difference and differencePercentage of the two results
Comparison(selectedStrategy, allAtOnce, difference) ==
    [selectedStrategy |-> selectedStrategy,
     allAtOnce |-> allAtOnce,
     winner |-> Winner(selectedStrategy.totalExitValue, allAtOnce.totalExitValue),
     difference |-> difference,
     differencePercentage |-> DifferencePercentage(difference, allAtOnce.totalExitValue)]

\* NullComparison with the winner taken by the general rule on the two zeros
NullComparisonByRule ==
    [selectedStrategy |-> EmptyResult, allAtOnce |-> EmptyResult,
     winner |-> Winner(Zero, Zero), difference |-> Zero, differencePercentage |-> Zero]

\* the comparison returned for a null / undefined token
NullComparison ==
    [selectedStrategy |-> EmptyResult, allAtOnce |-> EmptyResult, winner |-> "allAtOnce",
     difference |-> Zero, differencePercentage |-> Zero]

\* 'ai': the stage array evaluated is token.customExitStages itself
AiRun(token, config, run) ==
    [result |-> run.result,
     token |-> [token EXCEPT !.customExitStages = run.stages],
     config |-> config]

\* fixed strategies: the stage array evaluated is the STRATEGY_CONFIG table
\* itself
FixedRun(token, config, run) ==
    [result |-> run.result,
     token |-> token,
     config |-> [config EXCEPT ![token.exitStrategy] = run.stages.list]]

\* 'progressive' and "All at Target": a fresh array or none
FreshRun(token, config, stages) ==
    [result |-> calculateTokenStrategy(token, stages).result,
     token |-> token, config |-> config]

\* the evaluation of the selected strategy
SelectedRun(token, config) ==
    IF token.exitStrategy = "ai" /\ token.customExitStages.defined
    THEN AiRun(token, config, calculateTokenStrategy(token, token.customExitStages))
    ELSE IF token.exitStrategy = "progressive"
    THEN FreshRun(token, config, Defined(ProgressiveStages(token)))
    ELSE IF token.exitStrategy \in FixedStrategies
    THEN FixedRun(token, config,
                  calculateTokenStrategy(token, Defined(config[token.exitStrategy])))
    ELSE FreshRun(token, config, Undefined)

CompareResults(sel, allAtOnce) ==
    [result |-> Comparison(sel.result, allAtOnce,
                           Abs(Sub(sel.result.totalExitValue, allAtOnce.totalExitValue))),
     token |-> sel.token, config |-> sel.config]

\* const allAtOnce = calculateTokenStrategy(token)
CompareSelected(sel) ==
    CompareResults(sel, calculateTokenStrategy(sel.token, Undefined).result)

\* compareStrategies(token) under the tables config: the returned comparison,
\* the token object and the tables as the call leaves them
compareStrategies(token, config) ==
    IF token = NULL
    THEN [result |-> NullComparison, token |-> token, config |-> config]
    ELSE CompareSelected(SelectedRun(token, config))

(***************************************************************************)
(* Inputs                                                                  *)
(***************************************************************************)
\* longest stage list a caller passes in or stores in customExitStages
MaxStages == 2

\* stages a caller may supply, at entry price 1: below every target price
\* used here, above every one, and two that together oversell the holding
InputStages ==
    {Stage(Num(25), Num(2)), Stage(Num(50), Num(5)),
     Stage(Num(60), Num(100)), Stage(Num(50), Num(1))}

RECURSIVE SeqsUpTo(_, _)
SeqsUpTo(S, n) ==
    IF n = 0 THEN {<<>>}
    ELSE LET shorter == SeqsUpTo(S, n - 1)
         IN  shorter \cup {Append(s, x) : s \in {t \in shorter : Len(t) = n - 1}, x \in S}

\* a half and then 50.05%, which oversells a holding of 0.01 by less than
\* the tolerance
WithinTolerance == <<Stage(Num(50), Num(100)), Stage(Frac(1001, 20), Num(100))>>

\* a stage that oversells the holding between two that do not
OversoldInBetween == <<Stage(Num(60), Num(100)), Stage(Num(50), Num(5)), Stage(Num(25), Num(2))>>

StageLists == SeqsUpTo(InputStages, MaxStages) \cup {WithinTolerance, OversoldInBetween}

StageArgs == {Undefined} \cup {Defined(l) : l \in StageLists}

ExitStrategies ==
    {"targetMC", "ladder", "conservative", "moonOrBust", "ai", "progressive", "kelly"}

\* holdings: amount, price, entry price, market cap and target market cap
\* (in millions); 0 is the missing value of each field
Holdings ==
    [amount : {Zero, Num(100)}, price : {Num(1), Num(2)}, entryPrice : {Zero, Num(1)},
     marketCap : {Zero, Num(2)}, targetMarketCap : {Zero, Num(6), Num(40)}]

MakeToken(h, strategy, custom) ==
    [symbol |-> "MOCK", conviction |-> "medium",
     amount |-> h.amount, price |-> h.price, entryPrice |-> h.entryPrice,
     marketCap |-> h.marketCap, targetMarketCap |-> h.targetMarketCap,
     exitStrategy |-> strategy, customExitStages |-> custom]

\* tokens handed to the strategy functions: an 'ai' token carries any stage
\* list, the others none or an empty one
ProgressiveToken ==
    MakeToken([amount |-> Num(100), price |-> Num(1), entryPrice |-> Frac(1, 2),
               marketCap |-> Num(1), targetMarketCap |-> Num(10)],
              "progressive", Defined(<<>>))

\* a holding of a hundredth of a token, whose stages oversell it by 0.000005
SmallToken ==
    MakeToken([amount |-> Frac(1, 100), price |-> Num(2), entryPrice |-> Num(1),
               marketCap |-> Num(2), targetMarketCap |-> Num(6)],
              "ai", Defined(WithinTolerance))

StrategyTokens ==
    {MakeToken(h, "ai", c) : h \in Holdings, c \in StageArgs}
    \cup {MakeToken(h, s, c) : h \in Holdings, s \in ExitStrategies \ {"ai"},
                               c \in {Undefined, Defined(<<>>)}}
    \cup {ProgressiveToken, SmallToken}

\* tokens handed to calculateTokenStrategy directly, which reads only the
\* holding
HoldingTokens == {MakeToken(h, "targetMC", Undefined) : h \in Holdings}

(***************************************************************************)
(* The engine's calls                                                      *)
(***************************************************************************)
\* no call is in progress and no result is held
Idle == [op |-> "none"]

Init ==
    /\ STRATEGY_CONFIG = InitialStrategyConfig
    /\ last = Idle

\* what a calculateTokenStrategy call leaves behind
StrategyCall(token, stages, run) ==
    [op |-> "calculateTokenStrategy", token |-> token, tokenAfter |-> token,
     stages |-> stages, stagesAfter |-> run.stages, result |-> run.result,
     loop |-> run.loop]

\* calculateTokenStrategy(token, stages) with a stage array of the caller
CalculateTokenStrategy ==
    /\ last = Idle
    /\ \E token \in HoldingTokens \cup {SmallToken, NULL}, stages \in StageArgs :
            last' = StrategyCall(token, stages, calculateTokenStrategy(token, stages))
    /\ UNCHANGED STRATEGY_CONFIG

OnConfigCall(token, name, call) ==
    /\ last' = call
    /\ STRATEGY_CONFIG' = [STRATEGY_CONFIG EXCEPT ![name] = call.stagesAfter.list]

\* calculateTokenStrategy(token, STRATEGY_CONFIG[name].stages)
CalculateTokenStrategyOnConfig ==
    /\ last = Idle
    /\ \E token \in HoldingTokens, name \in FixedStrategies :
            OnConfigCall(token, name,
                StrategyCall(token, Defined(STRATEGY_CONFIG[name]),
                    calculateTokenStrategy(token, Defined(STRATEGY_CONFIG[name]))))

CompareCall(token, cmp) ==
    /\ last' = [op |-> "compareStrategies", token |-> token, tokenAfter |-> cmp.token,
                configBefore |-> STRATEGY_CONFIG, result |-> cmp.result]
    /\ STRATEGY_CONFIG' = cmp.config

\* compareStrategies(token)
CompareStrategies ==
    /\ last = Idle
    /\ \E token \in StrategyTokens \cup {NULL} :
            CompareCall(token, compareStrategies(token, STRATEGY_CONFIG))

\* the caller has used the result and drops it; the tables stay as the calls
\* left them
Return ==
    /\ last # Idle
    /\ last' = Idle
    /\ UNCHANGED STRATEGY_CONFIG

Next ==
    \/ CalculateTokenStrategy
    \/ CalculateTokenStrategyOnConfig
    \/ CompareStrategies
    \/ Return

Spec == Init /\ [][Next]_vars

(***************************************************************************)
(* calculatePortfolioValues                                                *)
(***************************************************************************)
\* the raw multiplier targetMarketCap / marketCap, tracked over the tokens
\* that have both; a later token replaces the highest only when strictly above
TrackHighest(acc, token) ==
    IF /\ Gt(token.marketCap, Zero) /\ Gt(token.targetMarketCap, Zero)
       /\ Gt(Div(token.targetMarketCap, token.marketCap), acc.highestMultiplier)
    THEN [highestMultiplier |-> Div(token.targetMarketCap, token.marketCap),
          highestPotentialToken |-> token]
    ELSE [highestMultiplier |-> acc.highestMultiplier,
          highestPotentialToken |-> acc.highestPotentialToken]

\* one iteration of tokens.forEach: cmp is compareStrategies(token), highest
\* the tracked highest-potential token after it
ValuesStep(acc, cmp, highest) ==
    [total |-> Add(acc.total, Mul(cmp.token.amount, cmp.token.price)),
     target |-> Add(acc.target, cmp.result.selectedStrategy.totalExitValue),
     highestMultiplier |-> highest.highestMultiplier,
     highestPotentialToken |-> highest.highestPotentialToken,
     tokens |-> Append(acc.tokens, cmp.token),
     config |-> cmp.config]

ValuesOfCompared(acc, cmp) == ValuesStep(acc, cmp, TrackHighest(acc, cmp.token))

RECURSIVE ValuesLoop(_, _)
ValuesLoop(acc, tokens) ==
    IF tokens = <<>>
    THEN acc
    ELSE ValuesLoop(ValuesOfCompared(acc, compareStrategies(Head(tokens), acc.config)),
                    Tail(tokens))

\* GrowthMultiplier that falls back to 1, "no growth", on an empty portfolio
GrowthMultiplierOne(total, target) == IF Gt(total, Zero) THEN Div(target, total) ELSE One

\* total > 0 ? target / total : 0
GrowthMultiplier(total, target) == IF Gt(total, Zero) THEN Div(target, total) ELSE Zero

PortfolioValues(total, target, growthMultiplier, highestPotentialToken) ==
    [total |-> total, target |-> target, growthMultiplier |-> growthMultiplier,
     growthPercentage |-> Mul(Sub(growthMultiplier, One), Hundred),
     highestPotentialToken |-> highestPotentialToken]

ValuesOfLoop(acc) ==
    [result |-> PortfolioValues(acc.total, acc.target,
                                GrowthMultiplier(acc.total, acc.target),
                                acc.highestPotentialToken),
     tokens |-> acc.tokens, config |-> acc.config]

\* calculatePortfolioValues(tokens) under the tables config: the returned
\* PortfolioValues, the tokens and the tables as the call leaves them
calculatePortfolioValues(tokens, config) ==
    ValuesOfLoop(ValuesLoop([total |-> Zero, target |-> Zero, highestMultiplier |-> Zero,
                             highestPotentialToken |-> NULL, tokens |-> <<>>,
                             config |-> config],
                            tokens))

(***************************************************************************)
(* findTopOpportunities                                                    *)
(***************************************************************************)
\* Array.prototype.sort with a comparator that subtracts two numbers orders the
\* elements by that number, ascending, and is stable: x goes behind every
\* element whose key is not above its own.  The elements carry their key.
RECURSIVE InsertSorted(_, _)
InsertSorted(x, sorted) ==
    IF sorted = <<>> THEN <<x>>
    ELSE IF Lt(x.key, Head(sorted).key) THEN <<x>> \o sorted
    ELSE <<Head(sorted)>> \o InsertSorted(x, Tail(sorted))

RECURSIVE SortKeyed(_)
SortKeyed(s) ==
    IF s = <<>> THEN <<>>
    ELSE InsertSorted(s[Len(s)], SortKeyed(SubSeq(s, 1, Len(s) - 1)))

Items(keyed) == [i \in 1..Len(keyed) |-> keyed[i].item]

\* items.sort((a, b) => key(a) - key(b)), keys[i] being the key of items[i]
SortBy(items, keys) ==
    Items(SortKeyed([i \in 1..Len(items) |-> [key |-> keys[i], item |-> items[i]]]))

\* .slice(0, n)
Slice(s, n) == SubSeq(s, 1, IF Len(s) < n THEN Len(s) ELSE n)

HasPotential(token) == Gt(token.marketCap, Zero) /\ Gt(token.targetMarketCap, Zero)

\* { ...token, potentialMultiplier }
Opportunity(token) ==
    [potentialMultiplier |-> Div(token.targetMarketCap, token.marketCap)] @@ token

\* the comparator taken the wrong way round: a.potentialMultiplier - b.potentialMultiplier
ByMultiplierAscending(a) == a.potentialMultiplier

\* (a, b) => b.potentialMultiplier - a.potentialMultiplier
ByMultiplierDescending(a) == Sub(Zero, a.potentialMultiplier)

Opportunities(tokens) ==
    [i \in 1..Len(SelectSeq(tokens, HasPotential)) |->
        Opportunity(SelectSeq(tokens, HasPotential)[i])]

\* opportunities.sort(...).slice(0, 5)
TopFive(opportunities) ==
    Slice(SortBy(opportunities, [i \in 1..Len(opportunities) |-> ByMultiplierDescending(opportunities[i])]), 5)

\* findTopOpportunities(tokens)
findTopOpportunities(tokens) ==
    IF tokens = <<>>
    THEN <<>>
    ELSE TopFive(Opportunities(tokens))

(***************************************************************************)
(* calculatePortfolioProjection                                            *)
(***************************************************************************)
RECURSIVE CurrentTotal(_)
CurrentTotal(tokens) ==
    IF tokens = <<>> THEN Zero
    ELSE Add(Mul(Head(tokens).amount, Head(tokens).price), CurrentTotal(Tail(tokens)))

\* currentPortfolioTotal - tokenCurrentValue + token.amount * exitPrice
ProjectedTotal(currentPortfolioTotal, token, exitPrice) ==
    Add(Sub(currentPortfolioTotal, Mul(token.amount, token.price)),
        Mul(token.amount, exitPrice))

ProjectedExit(currentPortfolioTotal, token, percentage, exitPrice) ==
    [projectedPortfolioValue |-> ProjectedTotal(currentPortfolioTotal, token, exitPrice),
     cashOutValue |-> Mul(Mul(token.amount, Div(percentage, Hundred)), exitPrice),
     tokenSymbol |-> token.symbol]

\* strategy.profitStages.forEach: an exit per stage above the current price
RECURSIVE StageExits(_, _, _, _)
StageExits(acc, profitStages, currentPortfolioTotal, token) ==
    IF profitStages = <<>> THEN acc
    ELSE StageExits(
            IF Gt(Head(profitStages).price, token.price)
            THEN [exits |-> Append(acc.exits,
                                   ProjectedExit(currentPortfolioTotal, token,
                                                 Head(profitStages).percentage,
                                                 Head(profitStages).price)),
                  totalPercentageSold |-> Add(acc.totalPercentageSold,
                                              Head(profitStages).percentage)]
            ELSE acc,
            Tail(profitStages), currentPortfolioTotal, token)

\* the exit of the remainder at the target price
RemainderExit(acc, strategy, currentPortfolioTotal, token) ==
    IF /\ Lt(acc.totalPercentageSold, Frac(999, 10))
       /\ Gt(strategy.targetPrice, token.price)
       /\ Gt(strategy.targetPrice,
             strategy.profitStages.list[Len(strategy.profitStages.list)].price)
    THEN Append(acc.exits,
                ProjectedExit(currentPortfolioTotal, token,
                              Sub(Hundred, acc.totalPercentageSold), strategy.targetPrice))
    ELSE acc.exits

\* the exits of one token under its selected strategy
TokenExits(strategy, currentPortfolioTotal, token) ==
    IF strategy.profitStages.defined /\ strategy.profitStages.list # <<>>
    THEN RemainderExit(StageExits([exits |-> <<>>, totalPercentageSold |-> Zero],
                                  strategy.profitStages.list, currentPortfolioTotal, token),
                       strategy, currentPortfolioTotal, token)
    ELSE IF Gt(strategy.targetPrice, token.price)
    THEN <<ProjectedExit(currentPortfolioTotal, token, Hundred, strategy.targetPrice)>>
    ELSE <<>>

ProjectionStep(acc, cmp, currentPortfolioTotal) ==
    [exits |-> acc.exits \o TokenExits(cmp.result.selectedStrategy, currentPortfolioTotal,
                                       cmp.token),
     tokens |-> Append(acc.tokens, cmp.token),
     config |-> cmp.config]

\* tokens.forEach: a token without a positive price and amount is passed over
RECURSIVE ProjectionLoop(_, _, _)
ProjectionLoop(acc, tokens, currentPortfolioTotal) ==
    IF tokens = <<>> THEN acc
    ELSE ProjectionLoop(
            IF Le(Head(tokens).price, Zero) \/ Le(Head(tokens).amount, Zero)
            THEN [acc EXCEPT !.tokens = Append(@, Head(tokens))]
            ELSE ProjectionStep(acc, compareStrategies(Head(tokens), acc.config),
                                currentPortfolioTotal),
            Tail(tokens), currentPortfolioTotal)

\* (a, b) => a.projectedPortfolioValue - b.projectedPortfolioValue
\* the order, were it by falling value
ByProjectedValueDescending(a) == Sub(Zero, a.projectedPortfolioValue)

ByProjectedValue(a) == a.projectedPortfolioValue

SortedExits(exits) == SortBy(exits, [i \in 1..Len(exits) |-> ByProjectedValue(exits[i])])

ProjectionOfLoop(acc) ==
    [result |-> [projectedExits |-> SortedExits(acc.exits)],
     tokens |-> acc.tokens, config |-> acc.config]

\* calculatePortfolioProjection(tokens) under the tables config
calculatePortfolioProjection(tokens, config) ==
    IF tokens = <<>>
    THEN [result |-> [projectedExits |-> <<>>], tokens |-> tokens, config |-> config]
    ELSE ProjectionOfLoop(ProjectionLoop([exits |-> <<>>, tokens |-> <<>>, config |-> config],
                                         tokens, CurrentTotal(tokens)))

(***************************************************************************)
(* The portfolio calls                                                     *)
(***************************************************************************)
MaxTokens == 2
MaxRanked == 6

\* the stages of an 'ai' token: one below and one above every target price
CustomStages == Defined(<<Stage(Num(25), Num(2)), Stage(Num(60), Num(100))>>)

\* holdings of a portfolio, with and without amount and market cap
PortfolioHoldings ==
    [amount : {Zero, Num(100)}, price : {Num(2)}, entryPrice : {Num(1)},
     marketCap : {Zero, Num(2)}, targetMarketCap : {Num(6), Num(40)}]

PortfolioTokens ==
    {MakeToken(h, "targetMC", Undefined) : h \in PortfolioHoldings}
    \cup {MakeToken(h, "ladder", Undefined) : h \in PortfolioHoldings}
    \cup {MakeToken(h, "ai", CustomStages) : h \in PortfolioHoldings}

Portfolios == SeqsUpTo(PortfolioTokens, MaxTokens)

RankedToken(symbol, marketCap, targetMarketCap) ==
    [MakeToken([amount |-> Num(100), price |-> Num(1), entryPrice |-> Num(1),
                marketCap |-> marketCap, targetMarketCap |-> targetMarketCap],
               "targetMC", Undefined)
     EXCEPT !.symbol = symbol]

\* tokens to rank: a 10x, two different 5x, one without a market cap and one
\* without a target
RankedTokens ==
    {RankedToken("TEN", Num(1), Num(10)), RankedToken("FIVE", Num(2), Num(10)),
     RankedToken("ALSOFIVE", Num(1), Num(5)), RankedToken("NOCAP", Zero, Num(10)),
     RankedToken("NOTARGET", Num(1), Zero)}

RankedLists == SeqsUpTo(RankedTokens, MaxRanked)

PortfolioCall(op, tokens, call) ==
    /\ last' = [op |-> op, tokens |-> tokens, tokensAfter |-> call.tokens,
                configBefore |-> STRATEGY_CONFIG, result |-> call.result]
    /\ STRATEGY_CONFIG' = call.config

\* calculatePortfolioValues(tokens)
CalculatePortfolioValues ==
    /\ last = Idle
    /\ \E tokens \in Portfolios :
            PortfolioCall("calculatePortfolioValues", tokens,
                          calculatePortfolioValues(tokens, STRATEGY_CONFIG))

\* findTopOpportunities(tokens)
FindTopOpportunities ==
    /\ last = Idle
    /\ \E tokens \in RankedLists :
            last' = [op |-> "findTopOpportunities", tokens |-> tokens,
                     result |-> findTopOpportunities(tokens)]
    /\ UNCHANGED STRATEGY_CONFIG

\* calculatePortfolioProjection(tokens)
CalculatePortfolioProjection ==
    /\ last = Idle
    /\ \E tokens \in Portfolios :
            PortfolioCall("calculatePortfolioProjection", tokens,
                          calculatePortfolioProjection(tokens, STRATEGY_CONFIG))

NextPortfolio ==
    \/ CalculatePortfolioValues
    \/ FindTopOpportunities
    \/ CalculatePortfolioProjection
    \/ Return

SpecPortfolio == Init /\ [][NextPortfolio]_vars

(***************************************************************************)
(* getRebalanceCandidates                                                  *)
(***************************************************************************)
EmptyCandidates == [profit |-> <<>>, risk |-> <<>>, accelerate |-> <<>>, buy |-> <<>>]

RECURSIVE TotalValue(_)
TotalValue(tokens) ==
    IF tokens = <<>> THEN Zero
    ELSE Add(Mul(Head(tokens).amount, Head(tokens).price), TotalValue(Tail(tokens)))

buyConvictionWeights == [low |-> Frac(7, 10), medium |-> One, high |-> Frac(3, 2)]
sellConvictionWeights == [low |-> Frac(3, 2), medium |-> One, high |-> Frac(1, 2)]
profitThresholds == [low |-> Frac(80, 100), medium |-> Frac(90, 100), high |-> Frac(95, 100)]

\* the token with its value, weight, progress, profit-and-loss ratio and
\* potential multiplier
AnalyzedToken(token, totalValue) ==
    [value |-> Mul(token.amount, token.price),
     portfolioWeight |-> Div(Mul(token.amount, token.price), totalValue),
     progress |-> IF Gt(token.targetMarketCap, Zero)
                  THEN Div(token.marketCap, token.targetMarketCap) ELSE Zero,
     pnlRatio |-> IF Gt(token.entryPrice, Zero)
                  THEN Div(Sub(token.price, token.entryPrice), token.entryPrice) ELSE Zero,
     potentialMultiplier |->
         IF Gt(token.marketCap, Zero) /\ Gt(token.targetMarketCap, token.marketCap)
         THEN Div(token.targetMarketCap, token.marketCap) ELSE One]
    @@ token

\* .filter(t => t.value > 1)
AboveNoise(t) == Gt(t.value, One)

AnalyzedTokens(tokens, totalValue) ==
    SelectSeq([i \in 1..Len(tokens) |-> AnalyzedToken(tokens[i], totalValue)], AboveNoise)

\* scoreB - scoreA on potentialMultiplier * buyConvictionWeights[conviction]
ByBuyScoreDescending(t) ==
    Sub(Zero, Mul(t.potentialMultiplier, buyConvictionWeights[t.conviction]))

\* [...analyzedTokens].sort(...)
BuyCandidates(analyzedTokens) ==
    SortBy(analyzedTokens, [i \in 1..Len(analyzedTokens) |-> ByBuyScoreDescending(analyzedTokens[i])])

\* every analysed token is a candidate for profit taking
ReachedAnyProgress(t) == Ge(t.progress, Zero)

ReachedThreshold(t) == Ge(t.progress, profitThresholds[t.conviction])

\* progressExcessB - progressExcessA
ByProgressExcessDescending(t) ==
    Sub(Zero, Sub(t.progress, profitThresholds[t.conviction]))

\* the first three of the list as it stands, unsorted
FirstThree(list) == Slice(list, 3)

TopThreeByExcess(list) ==
    Slice(SortBy(list, [i \in 1..Len(list) |-> ByProgressExcessDescending(list[i])]), 3)

ProfitCandidates(analyzedTokens) ==
    TopThreeByExcess(SelectSeq(analyzedTokens, ReachedThreshold))

\* concentration, were 40% itself too much
AtLeastFortyPercent(t) == Ge(t.portfolioWeight, Frac(40, 100))

OverConcentrated(t) == Gt(t.portfolioWeight, Frac(40, 100))

ByWeightDescending(t) == Sub(Zero, t.portfolioWeight)

TopThreeByWeight(list) ==
    Slice(SortBy(list, [i \in 1..Len(list) |-> ByWeightDescending(list[i])]), 3)

RiskCandidates(analyzedTokens) ==
    TopThreeByWeight(SelectSeq(analyzedTokens, OverConcentrated))

Underperforming(t) == Lt(t.pnlRatio, Zero)

WithLoserScore(t) ==
    [loserScore |-> Mul(Div(Mul(t.pnlRatio, Frac(-1, 1)), t.potentialMultiplier),
                        sellConvictionWeights[t.conviction])]
    @@ t

ByLoserScoreDescending(t) == Sub(Zero, t.loserScore)

Losers(analyzedTokens) ==
    [i \in 1..Len(SelectSeq(analyzedTokens, Underperforming)) |->
        WithLoserScore(SelectSeq(analyzedTokens, Underperforming)[i])]

TopThreeByLoserScore(list) ==
    Slice(SortBy(list, [i \in 1..Len(list) |-> ByLoserScoreDescending(list[i])]), 3)

AccelerateCandidates(analyzedTokens) ==
    TopThreeByLoserScore(Losers(analyzedTokens))

\* new Set([...profit, ...risk, ...accelerate].map(t => t.id))
SellIds(profit, risk, accelerate) ==
    {(profit \o risk \o accelerate)[i].id : i \in 1..(Len(profit) + Len(risk) + Len(accelerate))}

\* the best-scored token, suggested for selling or not
TopBuyCandidate(buyCandidates, sellIds) ==
    IF buyCandidates # <<>> THEN <<Head(buyCandidates)>> ELSE <<>>

\* the best-scored token that is not suggested for selling, else the
\* best-scored token
FinalBuyCandidate(buyCandidates, sellIds) ==
    LET NotForSale(t) == t.id \notin sellIds
    IN  IF SelectSeq(buyCandidates, NotForSale) # <<>>
        THEN <<Head(SelectSeq(buyCandidates, NotForSale))>>
        ELSE IF buyCandidates # <<>> THEN <<Head(buyCandidates)>> ELSE <<>>

Candidates(profit, risk, accelerate, buyCandidates) ==
    [profit |-> profit, risk |-> risk, accelerate |-> accelerate,
     buy |-> FinalBuyCandidate(buyCandidates, SellIds(profit, risk, accelerate))]

\* the selection, were there no floor of two analysed tokens
CandidatesAmongAny(analyzedTokens) ==
    Candidates(ProfitCandidates(analyzedTokens), RiskCandidates(analyzedTokens),
               AccelerateCandidates(analyzedTokens),
               BuyCandidates(analyzedTokens))

CandidatesAmong(analyzedTokens) ==
    IF Len(analyzedTokens) < 2
    THEN EmptyCandidates
    ELSE Candidates(ProfitCandidates(analyzedTokens), RiskCandidates(analyzedTokens),
                    AccelerateCandidates(analyzedTokens),
                    BuyCandidates(analyzedTokens))

\* getRebalanceCandidates(tokens)
getRebalanceCandidates(tokens) ==
    IF Len(tokens) < 2 \/ TotalValue(tokens) = Zero
    THEN EmptyCandidates
    ELSE CandidatesAmong(AnalyzedTokens(tokens, TotalValue(tokens)))

(***************************************************************************)
(* The rebalancing call                                                    *)
(***************************************************************************)
MaxHoldings == 4

Holding(id, symbol, conviction, price, entryPrice, marketCap, targetMarketCap) ==
    [id |-> id, symbol |-> symbol, conviction |-> conviction, amount |-> One,
     price |-> Num(price), entryPrice |-> Num(entryPrice),
     marketCap |-> Num(marketCap), targetMarketCap |-> Num(targetMarketCap),
     exitStrategy |-> "targetMC", customExitStages |-> Defined(<<>>)]

\* holdings of one unit each, market caps in millions: the four of the test
\* (near the target, heavy, losing, cheap with potential); a losing one near
\* the target under low conviction; one to hold, below the threshold of its
\* high conviction; one worth no more than a dollar; a heavy and losing one
\* at the threshold of its high conviction; a second, losing holding of a
\* symbol already held, past its threshold; and two that are worth nothing
RebalanceTokens ==
    {Holding("PROFIT", "PROFIT", "medium", 9500, 1, 95, 100),
     Holding("HEAVY", "HEAVY", "medium", 20000, 1, 1000, 2000),
     Holding("LOSER", "LOSER", "medium", 500, 1000, 5, 10),
     Holding("BUYME", "BUYME", "medium", 100, 1, 1, 50),
     Holding("EARLY", "EARLY", "low", 100, 200, 85, 100),
     Holding("HOLD", "HOLD", "high", 400, 1, 92, 100),
     Holding("DUST", "DUST", "medium", 1, 1, 1, 10),
     Holding("WHALE", "WHALE", "high", 50000, 60000, 95, 100),
     Holding("HEAVY-2", "HEAVY", "high", 20000, 30000, 960, 1000),
     Holding("NONE", "NONE", "medium", 0, 1, 1, 10),
     Holding("NONE-2", "NONE", "low", 0, 1, 1, 10)}

Ids(tokens) == {tokens[i].id : i \in 1..Len(tokens)}

\* token lists of a portfolio: every holding has its own id
RebalancePortfolios ==
    {tokens \in SeqsUpTo(RebalanceTokens, MaxHoldings) : Cardinality(Ids(tokens)) = Len(tokens)}

\* getRebalanceCandidates(tokens)
GetRebalanceCandidates ==
    /\ last = Idle
    /\ \E tokens \in RebalancePortfolios :
            last' = [op |-> "getRebalanceCandidates", tokens |-> tokens,
                     result |-> getRebalanceCandidates(tokens)]
    /\ UNCHANGED STRATEGY_CONFIG

NextRebalance ==
    \/ GetRebalanceCandidates
    \/ Return

SpecRebalance == Init /\ [][NextRebalance]_vars

(***************************************************************************)
(* calculateDynamicStages                                                  *)
(***************************************************************************)
\* Math.min, Math.max
Min(x, y) == IF Lt(y, x) THEN y ELSE x
Max(x, y) == IF Gt(y, x) THEN y ELSE x

isLowPotential(potentialMultiplier) == Lt(potentialMultiplier, Num(5))
isMediumPotential(potentialMultiplier) ==
    Ge(potentialMultiplier, Num(5)) /\ Lt(potentialMultiplier, Num(20))

\* { percentage, multiplier: Math.min(currentMultiplier * a, potentialMultiplier * b) }
DynamicStage(percentage, currentMultiplier, a, potentialMultiplier, b) ==
    Stage(percentage, Min(Mul(currentMultiplier, a), Mul(potentialMultiplier, b)))

LadderStages(currentMultiplier, potentialMultiplier) ==
    IF isLowPotential(potentialMultiplier)
    THEN <<DynamicStage(Num(40), currentMultiplier, Frac(3, 2), potentialMultiplier, Frac(3, 10)),
         DynamicStage(Num(35), currentMultiplier, Num(2), potentialMultiplier, Frac(3, 5)),
         DynamicStage(Num(25), currentMultiplier, Num(3), potentialMultiplier, Frac(9, 10))>>
    ELSE IF isMediumPotential(potentialMultiplier)
    THEN <<DynamicStage(Num(25), currentMultiplier, Num(2), potentialMultiplier, Frac(1, 4)),
         DynamicStage(Num(30), currentMultiplier, Num(4), potentialMultiplier, Frac(1, 2)),
         DynamicStage(Num(25), currentMultiplier, Num(8), potentialMultiplier, Frac(3, 4)),
         DynamicStage(Num(20), currentMultiplier, Num(12), potentialMultiplier, Num(1))>>
    ELSE <<DynamicStage(Num(15), currentMultiplier, Num(3), potentialMultiplier, Frac(1, 5)),
         DynamicStage(Num(20), currentMultiplier, Num(6), potentialMultiplier, Frac(2, 5)),
         DynamicStage(Num(25), currentMultiplier, Num(12), potentialMultiplier, Frac(3, 5)),
         DynamicStage(Num(25), currentMultiplier, Num(20), potentialMultiplier, Frac(4, 5)),
         DynamicStage(Num(15), currentMultiplier, Num(30), potentialMultiplier, Num(1))>>

ConservativeStages(currentMultiplier, potentialMultiplier) ==
    IF isLowPotential(potentialMultiplier)
    THEN <<DynamicStage(Num(50), currentMultiplier, Frac(3, 2), potentialMultiplier, Frac(2, 5)),
         DynamicStage(Num(30), currentMultiplier, Frac(5, 2), potentialMultiplier, Frac(4, 5)),
         DynamicStage(Num(20), currentMultiplier, Num(4), potentialMultiplier, Num(1))>>
    ELSE IF isMediumPotential(potentialMultiplier)
    THEN <<DynamicStage(Num(35), currentMultiplier, Num(2), potentialMultiplier, Frac(3, 10)),
         DynamicStage(Num(35), currentMultiplier, Num(5), potentialMultiplier, Frac(3, 5)),
         DynamicStage(Num(30), currentMultiplier, Num(10), potentialMultiplier, Num(1))>>
    ELSE <<DynamicStage(Num(25), currentMultiplier, Num(3), potentialMultiplier, Frac(1, 5)),
         DynamicStage(Num(30), currentMultiplier, Num(8), potentialMultiplier, Frac(1, 2)),
         DynamicStage(Num(45), currentMultiplier, Num(15), potentialMultiplier, Num(1))>>

MoonOrBustStages(currentMultiplier, potentialMultiplier) ==
    IF isLowPotential(potentialMultiplier)
    THEN <<DynamicStage(Num(60), currentMultiplier, Num(2), potentialMultiplier, Frac(1, 2)),
         DynamicStage(Num(40), currentMultiplier, Num(4), potentialMultiplier, Num(1))>>
    ELSE IF isMediumPotential(potentialMultiplier)
    THEN <<DynamicStage(Num(30), currentMultiplier, Num(3), potentialMultiplier, Frac(3, 10)),
         DynamicStage(Num(30), currentMultiplier, Num(8), potentialMultiplier, Frac(7, 10))>>
    ELSE <<DynamicStage(Num(20), currentMultiplier, Num(5), potentialMultiplier, Frac(1, 4)),
         DynamicStage(Num(20), currentMultiplier, Num(12), potentialMultiplier, Frac(1, 2))>>

\* Math.min(0.7, Math.max(0.3, 1 - potentialMultiplier / 100))
WinProbability(potentialMultiplier) ==
    Min(Frac(7, 10), Max(Frac(3, 10), Sub(One, Div(potentialMultiplier, Hundred))))

\* Math.max(0.1, Math.min(0.5, (b * p - q) / b)) with q = 1 - p
KellyPercentage(potentialMultiplier, winProbability) ==
    Max(Frac(1, 10),
        Min(Frac(1, 2),
            Div(Sub(Mul(potentialMultiplier, winProbability), Sub(One, winProbability)),
                potentialMultiplier)))

\* { percentage: fraction * 100, multiplier: Math.min(...) }
KellyStage(fraction, currentMultiplier, a, potentialMultiplier, b) ==
    Stage(Mul(fraction, Hundred), Min(Mul(currentMultiplier, a), Mul(potentialMultiplier, b)))

KellyLow(adjustedKelly, currentMultiplier, potentialMultiplier) ==
    <<KellyStage(adjustedKelly, currentMultiplier, Num(2), potentialMultiplier, Frac(1, 2)),
      KellyStage(Sub(One, adjustedKelly), currentMultiplier, Num(4), potentialMultiplier, One)>>

KellyMedium(kellyPercentage, currentMultiplier, potentialMultiplier) ==
    <<KellyStage(kellyPercentage, currentMultiplier, Num(3), potentialMultiplier, Frac(2, 5)),
      KellyStage(kellyPercentage, currentMultiplier, Num(6), potentialMultiplier, Frac(7, 10)),
      KellyStage(Sub(One, Mul(Num(2), kellyPercentage)), currentMultiplier, Num(10),
                 potentialMultiplier, One)>>

KellyHigh(adjustedKelly, currentMultiplier, potentialMultiplier) ==
    <<KellyStage(adjustedKelly, currentMultiplier, Num(5), potentialMultiplier, Frac(3, 10)),
      KellyStage(adjustedKelly, currentMultiplier, Num(10), potentialMultiplier, Frac(3, 5)),
      KellyStage(Sub(One, Mul(Num(2), adjustedKelly)), currentMultiplier, Num(20),
                 potentialMultiplier, One)>>

KellyStagesAt(kellyPercentage, currentMultiplier, potentialMultiplier) ==
    IF isLowPotential(potentialMultiplier)
    THEN KellyLow(Mul(kellyPercentage, Frac(6, 10)), currentMultiplier, potentialMultiplier)
    ELSE IF isMediumPotential(potentialMultiplier)
    THEN KellyMedium(kellyPercentage, currentMultiplier, potentialMultiplier)
    ELSE KellyHigh(Mul(kellyPercentage, Frac(12, 10)), currentMultiplier, potentialMultiplier)

KellyStages(currentMultiplier, potentialMultiplier) ==
    KellyStagesAt(KellyPercentage(potentialMultiplier, WinProbability(potentialMultiplier)),
                  currentMultiplier, potentialMultiplier)

\* switch (strategyType)
DynamicStagesOf(strategyType, currentMultiplier, potentialMultiplier) ==
    CASE strategyType = "ladder" -> LadderStages(currentMultiplier, potentialMultiplier)
      [] strategyType = "conservative" ->
            ConservativeStages(currentMultiplier, potentialMultiplier)
      [] strategyType = "moonOrBust" -> MoonOrBustStages(currentMultiplier, potentialMultiplier)
      [] strategyType = "kelly" -> KellyStages(currentMultiplier, potentialMultiplier)
      [] OTHER -> <<>>

\* calculateDynamicStages(token, strategyType)
calculateDynamicStages(token, strategyType) ==
    IF \/ Le(token.marketCap, Zero) \/ Le(token.targetMarketCap, Zero)
       \/ Le(token.entryPrice, Zero) \/ Le(token.price, Zero)
    THEN <<>>
    ELSE DynamicStagesOf(strategyType, Div(token.price, token.entryPrice),
                         Div(token.targetMarketCap, token.marketCap))

(***************************************************************************)
(* The stage-generating calls                                              *)
(***************************************************************************)
\* holdings of low (3x), medium (10x) and high (20x, 50x, 80x) potential,
\* and holdings that miss a field
DynamicHoldings ==
    [amount : {Num(100)}, price : {Zero, Num(1), Num(2)}, entryPrice : {Zero, Num(1)},
     marketCap : {Zero, Num(2)},
     targetMarketCap : {Zero, Num(6), Num(20), Num(40), Num(100), Num(160)}]

DynamicTokens == {MakeToken(h, s, Undefined) : h \in DynamicHoldings, s \in ExitStrategies}

\* calculateDynamicStages(token, strategyType); compareStrategies passes the
\* token's own exitStrategy
CalculateDynamicStages ==
    /\ last = Idle
    /\ \E token \in DynamicTokens :
            last' = [op |-> "calculateDynamicStages", token |-> token,
                     strategyType |-> token.exitStrategy,
                     result |-> calculateDynamicStages(token, token.exitStrategy)]
    /\ UNCHANGED STRATEGY_CONFIG

NextStages ==
    \/ CalculateDynamicStages
    \/ CompareStrategies
    \/ Return

SpecStages == Init /\ [][NextStages]_vars

(***************************************************************************)
(* Properties of calculateTokenStrategy and compareStrategies              *)
(***************************************************************************)
StrategyCalled == last.op = "calculateTokenStrategy"
CompareCalled == last.op = "compareStrategies"

NoStageList(stages) == ~stages.defined \/ stages.list = <<>>

AmountsOf(profitStages) == [i \in 1..Len(profitStages) |-> profitStages[i].amount]

\* C1: calculateTokenStrategy called with no stage list (undefined or empty)
\* returns totalExitValue = amount * targetPrice, targetPrice being the one of
\* the same result, and no profitStages, for every token.
C1_NoStagesSellAllAtTarget ==
    (StrategyCalled /\ NoStageList(last.stages)) =>
        /\ last.result.totalExitValue =
               Mul(TokenFields(last.token).amount, last.result.targetPrice)
        /\ last.result.profitStages = Undefined

\* an empty stage list on a token with market data: 100 tokens sold at 40
C1_Witness ==
    /\ StrategyCalled
    /\ last.stages = Defined(<<>>)
    /\ last.token # NULL
    /\ ~InvalidMarketData(TokenFields(last.token))
    /\ last.result.targetPrice = Num(40)
    /\ last.result.totalExitValue = Num(4000)

\* C2: after the stage loop of calculateTokenStrategy, the amounts of the
\* emitted profitStages plus the remaining amount equal the token's amount
\* within 1e-5.
C2_StagesAndRemainderCoverAmount ==
    (StrategyCalled /\ last.loop.ran) =>
        Le(Abs(Sub(Add(SumSeq(AmountsOf(last.result.profitStages.list)),
                       last.loop.remainingAmount),
                   TokenFields(last.token).amount)),
           EPSILON)

\* a stage was sold, a later one was skipped, and a remainder is left
C2_Witness ==
    /\ StrategyCalled
    /\ last.loop.ran
    /\ Len(last.result.profitStages.list) = 1
    /\ Len(last.stages.list) = 2
    /\ Gt(last.loop.remainingAmount, EPSILON)
    /\ Gt(last.result.profitStages.list[1].amount, Zero)

NominalPrice(token, stage) == Mul(token.entryPrice, stage.multiplier)

\* the emitted stage e is what the claim says of input stage s
EmittedAsClaimed(e, s, token, targetPrice) ==
    /\ e.percentage = s.percentage
    /\ IF Gt(NominalPrice(token, s), targetPrice)
       THEN /\ e.price = targetPrice
            /\ e.multiplier = Div(targetPrice, token.entryPrice)
       ELSE /\ e.multiplier = s.multiplier
            /\ e.price = NominalPrice(token, s)

\* C3: every emitted stage has price <= targetPrice; a stage whose nominal
\* price entryPrice * multiplier exceeds targetPrice is emitted with price
\* targetPrice and multiplier targetPrice / entryPrice, any other keeps its
\* multiplier and has price entryPrice * multiplier.  Emitted stages are
\* matched to the input stages by position when none was skipped, and to some
\* input stage otherwise.
C3_StagePriceCappedAtTarget ==
    (StrategyCalled /\ last.loop.ran) =>
        /\ \A i \in 1..Len(last.result.profitStages.list) :
              /\ Le(last.result.profitStages.list[i].price, last.result.targetPrice)
              /\ \E j \in i..Len(last.stages.list) :
                    EmittedAsClaimed(last.result.profitStages.list[i], last.stages.list[j],
                                     last.token, last.result.targetPrice)
        /\ Len(last.result.profitStages.list) = Len(last.stages.list) =>
              \A i \in 1..Len(last.stages.list) :
                    EmittedAsClaimed(last.result.profitStages.list[i], last.stages.list[i],
                                     last.token, last.result.targetPrice)

\* the ladder table at target price 6: 2x and 4x kept, 8x and 16x capped
C3_Witness ==
    /\ StrategyCalled
    /\ last.loop.ran
    /\ last.stages = Defined(InitialStrategyConfig.ladder)
    /\ last.result.targetPrice = Num(6)
    /\ Len(last.result.profitStages.list) = 4
    /\ last.result.profitStages.list[2].price = Num(4)
    /\ last.result.profitStages.list[3].price = Num(6)
    /\ last.result.profitStages.list[4].multiplier = Num(6)
    /\ last.result.totalExitValue = Num(450)

AllZero(r) ==
    /\ r.currentValue = Zero /\ r.targetPrice = Zero /\ r.growthMultiplier = Zero
    /\ r.totalExitValue = Zero /\ r.profit = Zero /\ r.profitPercentage = Zero

\* C4: compareStrategies of a null or undefined token returns a comparison
\* whose two results have every numeric field 0, with difference 0,
\* differencePercentage 0 and winner 'allAtOnce'.
C4_NullTokenComparison ==
    (CompareCalled /\ last.token = NULL) =>
        /\ AllZero(last.result.selectedStrategy)
        /\ AllZero(last.result.allAtOnce)
        /\ last.result.difference = Zero
        /\ last.result.differencePercentage = Zero
        /\ last.result.winner = "allAtOnce"

C4_Witness == CompareCalled /\ last.token = NULL

\* C5: no engine call changes a field of the token passed to it, the
\* percentage and multiplier entries of customExitStages included.
C5_TokenUnchanged ==
    (StrategyCalled \/ CompareCalled) => last.tokenAfter = last.token

\* C6: the tables STRATEGY_CONFIG.ladder.stages, .conservative.stages and
\* .moonOrBust.stages hold their initial values after any sequence of calls.
\* Hence the comparison of a token is the one the initial tables give,
\* whatever was evaluated before.
C6_StrategyConfigConstant ==
    /\ STRATEGY_CONFIG = InitialStrategyConfig
    /\ (CompareCalled /\ last.token # NULL) =>
          last.result = compareStrategies(last.token, InitialStrategyConfig).result

\* C10: for a token, winner is 'selectedStrategy' when the selected total is
\* >= the all-at-once total (ties included) and 'allAtOnce' otherwise,
\* difference is the absolute difference of the totals, and
\* differencePercentage is difference / allAtOnce.totalExitValue * 100, or 0
\* when allAtOnce.totalExitValue is 0.
C10_WinnerAndDifference ==
    (CompareCalled /\ last.token # NULL) =>
        /\ last.result.winner =
              IF Ge(last.result.selectedStrategy.totalExitValue,
                    last.result.allAtOnce.totalExitValue)
              THEN "selectedStrategy" ELSE "allAtOnce"
        /\ last.result.difference =
              Abs(Sub(last.result.selectedStrategy.totalExitValue,
                      last.result.allAtOnce.totalExitValue))
        /\ last.result.differencePercentage =
              IF last.result.allAtOnce.totalExitValue = Zero
              THEN Zero
              ELSE Mul(Div(last.result.difference, last.result.allAtOnce.totalExitValue),
                       Hundred)

\* a tie at a positive total, won by the selected strategy
C10_Witness ==
    /\ CompareCalled
    /\ last.token # NULL
    /\ last.result.selectedStrategy.totalExitValue = last.result.allAtOnce.totalExitValue
    /\ Gt(last.result.allAtOnce.totalExitValue, Zero)
    /\ last.result.winner = "selectedStrategy"
    /\ last.result.differencePercentage = Zero


(***************************************************************************)
(* Properties of the portfolio calls                                       *)
(***************************************************************************)
ValuesCalled == last.op = "calculatePortfolioValues"
TopCalled == last.op = "findTopOpportunities"
ProjectionCalled == last.op = "calculatePortfolioProjection"

\* C7: on the empty token list calculatePortfolioValues returns total 0,
\* target 0, growthMultiplier 0, growthPercentage -100 and a null
\* highestPotentialToken, and findTopOpportunities and
\* calculatePortfolioProjection return an empty list.
C7_EmptyPortfolio ==
    /\ (ValuesCalled /\ last.tokens = <<>>) =>
          last.result = [total |-> Zero, target |-> Zero, growthMultiplier |-> Zero,
                         growthPercentage |-> Frac(-100, 1),
                         highestPotentialToken |-> NULL]
    /\ (TopCalled /\ last.tokens = <<>>) => last.result = <<>>
    /\ (ProjectionCalled /\ last.tokens = <<>>) => last.result.projectedExits = <<>>

C7_Witness ==
    /\ ValuesCalled /\ last.tokens = <<>>
    /\ last.result.growthPercentage = Frac(-100, 1)

AtMostFivePositive(result) ==
    /\ Len(result) <= 5
    /\ \A i \in 1..Len(result) :
          /\ Gt(result[i].marketCap, Zero) /\ Gt(result[i].targetMarketCap, Zero)
          /\ result[i].potentialMultiplier =
                Div(result[i].targetMarketCap, result[i].marketCap)

\* C8 as stated: findTopOpportunities returns at most 5 entries, all with
\* positive marketCap and targetMarketCap, each entry's potentialMultiplier
\* strictly greater than the next one's.
C8_StrictlyDescending ==
    TopCalled =>
        /\ AtMostFivePositive(last.result)
        /\ \A i \in 1..(Len(last.result) - 1) :
              Gt(last.result[i].potentialMultiplier, last.result[i + 1].potentialMultiplier)

\* C8, amended: findTopOpportunities returns at most 5 entries, all with
\* positive marketCap and targetMarketCap, each entry's potentialMultiplier
\* greater than or equal to the next one's; tokens with equal multipliers
\* are both listed, next to each other.
C8_TopFiveDescending ==
    TopCalled =>
        /\ AtMostFivePositive(last.result)
        /\ \A i \in 1..(Len(last.result) - 1) :
              Ge(last.result[i].potentialMultiplier, last.result[i + 1].potentialMultiplier)

\* six rankable tokens given, five returned, with a tie and a strict step
C8_Witness ==
    /\ TopCalled
    /\ Len(SelectSeq(last.tokens, HasPotential)) = 6
    /\ Len(last.result) = 5
    /\ \E i \in 1..4 :
          last.result[i].potentialMultiplier = last.result[i + 1].potentialMultiplier
    /\ \E i \in 1..4 :
          Gt(last.result[i].potentialMultiplier, last.result[i + 1].potentialMultiplier)


(***************************************************************************)
(* Properties of getRebalanceCandidates                                    *)
(***************************************************************************)
RebalanceCalled == last.op = "getRebalanceCandidates"

SymbolsOf(list) == {list[i].symbol : i \in 1..Len(list)}

NoTokenTwice(list) == \A i, j \in 1..Len(list) : list[i].id = list[j].id => i = j

ValueOf(token) == Mul(token.amount, token.price)

\* the exit value of the token's selected strategy, the token taken by itself
SelectedExitValue(token) ==
    compareStrategies(token, InitialStrategyConfig).result.selectedStrategy.totalExitValue

ValuesOfTokens(tokens) == [i \in 1..Len(tokens) |-> ValueOf(tokens[i])]

ExitValuesOfTokens(tokens) == [i \in 1..Len(tokens) |-> SelectedExitValue(tokens[i])]

\* C11: calculatePortfolioValues returns total = sum of amount * price,
\* target = sum over the tokens of the totalExitValue of the token's selected
\* strategy, growthMultiplier = target / total (0 when total is 0) and
\* growthPercentage = (growthMultiplier - 1) * 100.
C11_PortfolioTotals ==
    ValuesCalled =>
        /\ last.result.total = SumSeq(ValuesOfTokens(last.tokens))
        /\ last.result.target = SumSeq(ExitValuesOfTokens(last.tokens))
        /\ last.result.growthMultiplier =
              IF last.result.total = Zero THEN Zero
              ELSE Div(last.result.target, last.result.total)
        /\ last.result.growthPercentage =
              Mul(Sub(last.result.growthMultiplier, One), Hundred)


(***************************************************************************)
(* Properties of the degraded result of calculateTokenStrategy             *)
(***************************************************************************)
\* growthMultiplier 1, the holding valued at its current price
Degraded(f, r) ==
    /\ r.growthMultiplier = One
    /\ r.targetPrice = f.price
    /\ r.currentValue = Mul(f.amount, f.price)
    /\ r.totalExitValue = r.currentValue
    /\ r.profit = Sub(r.currentValue, Mul(f.amount, f.entryPrice))

\* growthMultiplier = targetMarketCap / marketCap, targetPrice = price * growthMultiplier
GrowsToTarget(f, r) ==
    /\ r.growthMultiplier = Div(f.targetMarketCap, f.marketCap)
    /\ r.targetPrice = Mul(f.price, r.growthMultiplier)

\* C12 as stated: every token with marketCap > 0 and targetMarketCap > 0 gets
\* growthMultiplier = targetMarketCap / marketCap and targetPrice = price *
\* growthMultiplier, whatever its entryPrice; the degraded result is returned
\* only when marketCap <= 0 or targetMarketCap <= 0.
C12_DegradedOnlyOnMarketCaps ==
    StrategyCalled =>
        /\ (Gt(TokenFields(last.token).marketCap, Zero)
            /\ Gt(TokenFields(last.token).targetMarketCap, Zero)) =>
                GrowsToTarget(TokenFields(last.token), last.result)
        /\ (Le(TokenFields(last.token).marketCap, Zero)
            \/ Le(TokenFields(last.token).targetMarketCap, Zero)) =>
                Degraded(TokenFields(last.token), last.result)

\* C12, amended: calculateTokenStrategy returns the degraded result
\* (growthMultiplier 1, targetPrice = price, totalExitValue = currentValue,
\* profit = currentValue - initialInvestment) when marketCap <= 0,
\* targetMarketCap <= 0 or entryPrice <= 0; for every token with all three
\* positive it returns growthMultiplier = targetMarketCap / marketCap and
\* targetPrice = price * growthMultiplier.
C12_DegradedOnInvalidData ==
    StrategyCalled =>
        IF \/ Le(TokenFields(last.token).marketCap, Zero)
           \/ Le(TokenFields(last.token).targetMarketCap, Zero)
           \/ Le(TokenFields(last.token).entryPrice, Zero)
        THEN Degraded(TokenFields(last.token), last.result)
        ELSE GrowsToTarget(TokenFields(last.token), last.result)

\* valid market caps (6 over 2) and no entry price: the degraded result
C12_Witness ==
    /\ StrategyCalled
    /\ last.token # NULL
    /\ last.token.entryPrice = Zero
    /\ last.token.marketCap = Num(2)
    /\ last.token.targetMarketCap = Num(6)
    /\ last.token.amount = Num(100)
    /\ last.result.growthMultiplier = One
    /\ last.result.totalExitValue = Mul(last.token.amount, last.token.price)


(***************************************************************************)
(* Properties of the generated stage lists                                 *)
(***************************************************************************)
DynamicStagesCalled == last.op = "calculateDynamicStages"

AllPositive(token) ==
    /\ Gt(token.price, Zero) /\ Gt(token.entryPrice, Zero)
    /\ Gt(token.marketCap, Zero) /\ Gt(token.targetMarketCap, Zero)

PercentagesOf(stages) == [i \in 1..Len(stages) |-> stages[i].percentage]

WellFormedStages(stages) ==
    /\ \A i \in 1..Len(stages) :
          /\ Ge(stages[i].percentage, Zero) /\ Le(stages[i].percentage, Hundred)
          /\ Gt(stages[i].multiplier, Zero)
    /\ Le(SumSeq(PercentagesOf(stages)), Hundred)

\* C13: for every token with positive price, entryPrice, marketCap and
\* targetMarketCap, the stage list generated for ladder, conservative,
\* moonOrBust and kelly (calculateDynamicStages) and for progressive
\* (compareStrategies) has every percentage within 0..100, every multiplier
\* above 0, and percentages that sum to at most 100.
C13_GeneratedStagesWellFormed ==
    /\ (DynamicStagesCalled /\ AllPositive(last.token)) => WellFormedStages(last.result)
    /\ (CompareCalled /\ last.token # NULL) =>
          ((last.token.exitStrategy = "progressive" /\ AllPositive(last.token)) =>
                WellFormedStages(ProgressiveStages(last.token)))


(***************************************************************************)
(* Properties of the exit value of a staged strategy                       *)
(***************************************************************************)
ValuesOf(profitStages) == [i \in 1..Len(profitStages) |-> profitStages[i].value]

\* the number of input stages that fit into what is left of the amount
RECURSIVE AcceptedStages(_, _, _)
AcceptedStages(stages, amount, remainingAmount) ==
    IF stages = <<>> THEN 0
    ELSE IF Lt(Sub(remainingAmount, Mul(amount, Div(Head(stages).percentage, Hundred))),
               Frac(-1, 100000))
    THEN AcceptedStages(Tail(stages), amount, remainingAmount)
    ELSE 1 + AcceptedStages(Tail(stages), amount,
                            Sub(remainingAmount,
                                Mul(amount, Div(Head(stages).percentage, Hundred))))

\* C14: with stages on a token with valid market data, totalExitValue is the
\* sum of the values of the emitted profitStages plus remainingAmount *
\* targetPrice when remainingAmount > 1e-5; the remainder is not a stage, so
\* profitStages has exactly one entry per accepted input stage.
C14_ExitValueIsStagesPlusRemainder ==
    (StrategyCalled /\ last.loop.ran) =>
        /\ last.result.totalExitValue =
              Add(SumSeq(ValuesOf(last.result.profitStages.list)),
                  IF Gt(last.loop.remainingAmount, Frac(1, 100000))
                  THEN Mul(last.loop.remainingAmount, last.result.targetPrice)
                  ELSE Zero)
        /\ Len(last.result.profitStages.list) =
              AcceptedStages(last.stages.list, last.token.amount, last.token.amount)

\* 25% at 5x and 25% at 10x of 100 tokens entered at 1, target price 40:
\* two stages and 125 + 250 + 50 * 40 = 2375
C14_Witness ==
    /\ StrategyCalled
    /\ last.loop.ran
    /\ last.stages.list = <<Stage(Num(25), Num(5)), Stage(Num(25), Num(10))>>
    /\ last.token.amount = Num(100)
    /\ last.token.entryPrice = Num(1)
    /\ last.result.targetPrice = Num(40)
    /\ last.loop.remainingAmount = Num(50)
    /\ Len(last.result.profitStages.list) = 2
    /\ last.result.totalExitValue = Num(2375)


(***************************************************************************)
(* Properties of the progressive strategy                                  *)
(***************************************************************************)
\* the i-th progressive stage as the claim gives it: sellPercent of the
\* amount at price * (progress * targetMarketCap / marketCap)
ProgressiveAsClaimed(e, token, sellPercent, progress) ==
    /\ e.percentage = sellPercent
    /\ e.amount = Mul(token.amount, Div(sellPercent, Hundred))
    /\ e.price = Mul(token.price,
                     Div(Mul(progress, token.targetMarketCap), token.marketCap))

\* C15: for a 'progressive' token with price > 0, entryPrice > 0, marketCap >
\* 0 and targetMarketCap > marketCap, compareStrategies evaluates exactly
\* four stages selling 15%, 20%, 25% and 40% at prices price * (f *
\* targetMarketCap / marketCap) for f = 0.5, 0.75, 0.9 and 1; if a
\* precondition fails the selected result is the no-stage benchmark.
C15_ProgressiveStages ==
    (CompareCalled /\ last.token # NULL) =>
        (last.token.exitStrategy = "progressive" =>
            IF /\ Gt(last.token.price, Zero) /\ Gt(last.token.entryPrice, Zero)
               /\ Gt(last.token.marketCap, Zero)
               /\ Gt(last.token.targetMarketCap, last.token.marketCap)
            THEN /\ last.result.selectedStrategy.profitStages.defined
                 /\ Len(last.result.selectedStrategy.profitStages.list) = 4
                 /\ ProgressiveAsClaimed(last.result.selectedStrategy.profitStages.list[1],
                                         last.token, Num(15), Frac(1, 2))
                 /\ ProgressiveAsClaimed(last.result.selectedStrategy.profitStages.list[2],
                                         last.token, Num(20), Frac(3, 4))
                 /\ ProgressiveAsClaimed(last.result.selectedStrategy.profitStages.list[3],
                                         last.token, Num(25), Frac(9, 10))
                 /\ ProgressiveAsClaimed(last.result.selectedStrategy.profitStages.list[4],
                                         last.token, Num(40), One)
            ELSE last.result.selectedStrategy = last.result.allAtOnce)

\* price 1, market cap 1M, target 10M, amount 100: prices 5, 7.5, 9, 10 and
\* 75 + 150 + 225 + 400 = 850
C15_Witness ==
    /\ CompareCalled
    /\ last.token = ProgressiveToken
    /\ Len(last.result.selectedStrategy.profitStages.list) = 4
    /\ last.result.selectedStrategy.profitStages.list[1].price = Num(5)
    /\ last.result.selectedStrategy.profitStages.list[2].price = Frac(15, 2)
    /\ last.result.selectedStrategy.profitStages.list[3].price = Num(9)
    /\ last.result.selectedStrategy.profitStages.list[4].price = Num(10)
    /\ last.result.selectedStrategy.totalExitValue = Num(850)


(***************************************************************************)
(* Properties of the profit list                                           *)
(***************************************************************************)
WorthMoreThanADollar(token) == Gt(Mul(token.amount, token.price), One)

\* the tokens the candidate lists are drawn from
Analysed(tokens) == SelectSeq(tokens, WorthMoreThanADollar)

\* the call went past its guards: at least two tokens worth more than $1
CandidatesSelected == RebalanceCalled /\ Len(Analysed(last.tokens)) >= 2

ClaimedThreshold(conviction) ==
    CASE conviction = "low" -> Frac(80, 100)
      [] conviction = "medium" -> Frac(90, 100)
      [] conviction = "high" -> Frac(95, 100)

ProgressOf(token) ==
    IF Gt(token.targetMarketCap, Zero)
    THEN Div(token.marketCap, token.targetMarketCap) ELSE Zero

ExcessOf(token) == Sub(ProgressOf(token), ClaimedThreshold(token.conviction))

MeetsThreshold(token) == Ge(ExcessOf(token), Zero)

UpToThree(n) == IF n < 3 THEN n ELSE 3

ClaimedBuyWeight(conviction) ==
    CASE conviction = "low" -> Frac(7, 10)
      [] conviction = "medium" -> One
      [] conviction = "high" -> Frac(15, 10)

\* targetMarketCap / marketCap when the target is above the market cap, else 1
ClaimedMultiplier(token) ==
    IF Gt(token.marketCap, Zero) /\ Gt(token.targetMarketCap, token.marketCap)
    THEN Div(token.targetMarketCap, token.marketCap) ELSE One

BuyScore(token) == Mul(ClaimedMultiplier(token), ClaimedBuyWeight(token.conviction))

SoldIds(result) == Ids(result.profit) \cup Ids(result.risk) \cup Ids(result.accelerate)

\* token t of the input is analysed and in none of the sell lists
KeptToken(t, result) == WorthMoreThanADollar(t) /\ t.id \notin SoldIds(result)

\* C17: getRebalanceCandidates returns at most one buy candidate; it is the
\* token of the highest score potentialMultiplier * buyConvictionWeight (0.7
\* / 1.0 / 1.5) among the analysed tokens that are in none of the three sell
\* lists, and the highest-scoring analysed token overall only when every
\* analysed token is a sell candidate.
C17_BuyCandidate ==
    RebalanceCalled =>
        /\ Len(last.result.buy) <= 1
        /\ CandidatesSelected =>
              /\ Len(last.result.buy) = 1
              /\ last.result.buy[1].id \in Ids(Analysed(last.tokens))
              /\ IF \E i \in 1..Len(last.tokens) : KeptToken(last.tokens[i], last.result)
                 THEN /\ last.result.buy[1].id \notin SoldIds(last.result)
                      /\ \A i \in 1..Len(last.tokens) :
                            KeptToken(last.tokens[i], last.result) =>
                                Ge(BuyScore(last.result.buy[1]), BuyScore(last.tokens[i]))
                 ELSE \A i \in 1..Len(last.tokens) :
                            WorthMoreThanADollar(last.tokens[i]) =>
                                Ge(BuyScore(last.result.buy[1]), BuyScore(last.tokens[i]))

\* the best-scored token is a sell candidate and the best of the others is
\* proposed
C17_Witness ==
    /\ CandidatesSelected
    /\ Len(last.result.buy) = 1
    /\ last.result.buy[1].id \notin SoldIds(last.result)
    /\ \E i \in 1..Len(last.tokens) :
          /\ WorthMoreThanADollar(last.tokens[i])
          /\ last.tokens[i].id \in SoldIds(last.result)
          /\ Gt(BuyScore(last.tokens[i]), BuyScore(last.result.buy[1]))

(***************************************************************************)
(* C18                                                                     *)
(***************************************************************************)
ValuesOfHoldings(tokens) == [i \in 1..Len(tokens) |-> Mul(tokens[i].amount, tokens[i].price)]

NoCandidates(result) ==
    /\ result.profit = <<>>
    /\ result.risk = <<>>
    /\ result.accelerate = <<>>
    /\ result.buy = <<>>

\* C18: getRebalanceCandidates returns four empty lists whenever the input
\* has fewer than two tokens, the total portfolio value is 0, or fewer than
\* two tokens are worth more than $1
C18_EmptyLists ==
    (/\ RebalanceCalled
     /\ \/ Len(last.tokens) < 2
        \/ SumSeq(ValuesOfHoldings(last.tokens)) = Zero
        \/ Len(Analysed(last.tokens)) < 2)
    => NoCandidates(last.result)

\* a portfolio of several tokens with a positive total, whose only token
\* above $1 is past its profit threshold, yields nothing
C18_Witness ==
    /\ RebalanceCalled
    /\ Len(last.tokens) >= 2
    /\ Gt(SumSeq(ValuesOfHoldings(last.tokens)), Zero)
    /\ Len(Analysed(last.tokens)) = 1
    /\ MeetsThreshold(Analysed(last.tokens)[1])
    /\ NoCandidates(last.result)

(***************************************************************************)
(* C19                                                                     *)
(***************************************************************************)
\* the share of the whole portfolio's value, small holdings included
WeightOf(token, tokens) ==
    Div(Mul(token.amount, token.price), SumSeq(ValuesOfHoldings(tokens)))

TooHeavy(token, tokens) == Gt(WeightOf(token, tokens), Frac(40, 100))

\* C19: the risk list holds exactly the analysed tokens whose weight in the
\* portfolio is strictly greater than 0.40, ordered by weight descending, and
\* each of the three sell lists has at most 3 entries.  Stated of the calls
\* that select candidates.
C19_RiskList ==
    CandidatesSelected =>
        /\ \A i \in 1..Len(last.result.risk) :
              /\ last.result.risk[i].id \in Ids(Analysed(last.tokens))
              /\ TooHeavy(last.result.risk[i], last.tokens)
        /\ \A i \in 1..Len(last.tokens) :
              (WorthMoreThanADollar(last.tokens[i]) /\ TooHeavy(last.tokens[i], last.tokens))
              => \E j \in 1..Len(last.result.risk) : last.result.risk[j].id = last.tokens[i].id
        /\ Cardinality(Ids(last.result.risk)) = Len(last.result.risk)
        /\ \A i \in 1..Len(last.result.risk) : \A j \in 1..Len(last.result.risk) :
              i < j => Ge(WeightOf(last.result.risk[i], last.tokens),
                          WeightOf(last.result.risk[j], last.tokens))
        /\ Len(last.result.profit) <= 3
        /\ Len(last.result.risk) <= 3
        /\ Len(last.result.accelerate) <= 3

\* one token is listed for its weight while another, at exactly 40% of the
\* portfolio, is not
C19_Witness ==
    /\ CandidatesSelected
    /\ Len(last.result.risk) >= 1
    /\ \E i \in 1..Len(last.tokens) :
          /\ WeightOf(last.tokens[i], last.tokens) = Frac(40, 100)
          /\ \A j \in 1..Len(last.result.risk) : last.result.risk[j].id # last.tokens[i].id

(***************************************************************************)
(* C20                                                                     *)
(***************************************************************************)
\* the tokens the projection goes through, each with its selected strategy
RECURSIVE SelectedStrategies(_, _)
SelectedStrategies(tokens, config) ==
    IF tokens = <<>> THEN <<>>
    ELSE IF Le(Head(tokens).price, Zero) \/ Le(Head(tokens).amount, Zero)
    THEN SelectedStrategies(Tail(tokens), config)
    ELSE <<[token |-> Head(tokens),
            strategy |-> compareStrategies(Head(tokens), config).result.selectedStrategy]>>
         \o SelectedStrategies(Tail(tokens), compareStrategies(Head(tokens), config).config)

Staged(strategy) == strategy.profitStages.defined /\ strategy.profitStages.list # <<>>

StagesAbove(stages, price) == SelectSeq(stages, LAMBDA stage : Gt(stage.price, price))

\* the events of a token after those of its stages
AfterStages(s, currentPortfolioTotal) ==
    SubSeq(TokenExits(s.strategy, currentPortfolioTotal, s.token),
           Len(StagesAbove(s.strategy.profitStages.list, s.token.price)) + 1,
           Len(TokenExits(s.strategy, currentPortfolioTotal, s.token)))

RemainderAsClaimed(s, events) ==
    events # <<>> =>
        /\ Len(events) = 1
        /\ Lt(SumSeq(PercentagesOf(s.strategy.profitStages.list)), Frac(999, 10))
        /\ Gt(s.strategy.targetPrice, s.token.price)
        /\ Gt(s.strategy.targetPrice,
              s.strategy.profitStages.list[Len(s.strategy.profitStages.list)].price)
        /\ events[1].cashOutValue =
              Mul(Div(Mul(s.token.amount,
                          Sub(Hundred, SumSeq(PercentagesOf(s.strategy.profitStages.list)))),
                      Hundred),
                  s.strategy.targetPrice)

Projected(event) == \E i \in 1..Len(last.result.projectedExits) : last.result.projectedExits[i] = event

\* C20: for a token whose selected strategy has stages, the projection emits
\* the event of the remainder, sold at the target price, only when the
\* percentages of the strategy's stages sum to less than 99.9% and the target
\* price exceeds both the current price and the last stage's price, and the
\* event's cashOutValue is amount * (100 - sum of the stage percentages) /
\* 100 * targetPrice
C20_RemainderEvent ==
    ProjectionCalled =>
        \A i \in 1..Len(SelectedStrategies(last.tokens, last.configBefore)) :
            Staged(SelectedStrategies(last.tokens, last.configBefore)[i].strategy) =>
                /\ \A k \in 1..Len(AfterStages(SelectedStrategies(last.tokens, last.configBefore)[i], CurrentTotal(last.tokens))) :
                      Projected(AfterStages(SelectedStrategies(last.tokens, last.configBefore)[i], CurrentTotal(last.tokens))[k])
                /\ RemainderAsClaimed(SelectedStrategies(last.tokens, last.configBefore)[i],
                                      AfterStages(SelectedStrategies(last.tokens, last.configBefore)[i], CurrentTotal(last.tokens)))

(***************************************************************************)
(* C21                                                                     *)
(***************************************************************************)
\* the event claimed for a stage of a token's selected strategy
ClaimedStageEvent(s, stage, portfolioTotal) ==
    [projectedPortfolioValue |->
         Add(Sub(portfolioTotal, Mul(s.token.amount, s.token.price)),
             Mul(s.token.amount, stage.price)),
     cashOutValue |-> Mul(Div(Mul(s.token.amount, stage.percentage), Hundred), stage.price),
     tokenSymbol |-> s.token.symbol]

ClaimedStageEvents(s, portfolioTotal) ==
    IF Staged(s.strategy)
    THEN [k \in 1..Len(StagesAbove(s.strategy.profitStages.list, s.token.price)) |->
             ClaimedStageEvent(s, StagesAbove(s.strategy.profitStages.list, s.token.price)[k],
                               portfolioTotal)]
    ELSE <<>>

\* the events of a token that are not those of its stages
OtherEvents(s, portfolioTotal) ==
    IF Staged(s.strategy)
    THEN AfterStages(s, portfolioTotal)
    ELSE TokenExits(s.strategy, portfolioTotal, s.token)

RECURSIVE ClaimedEvents(_, _)
ClaimedEvents(strategies, portfolioTotal) ==
    IF strategies = <<>> THEN <<>>
    ELSE ClaimedStageEvents(Head(strategies), portfolioTotal)
         \o OtherEvents(Head(strategies), portfolioTotal)
         \o ClaimedEvents(Tail(strategies), portfolioTotal)

Occurrences(events, event) == Cardinality({i \in 1..Len(events) : events[i] = event})

SameEvents(a, b) ==
    /\ Len(a) = Len(b)
    /\ \A i \in 1..Len(a) : Occurrences(a, a[i]) = Occurrences(b, a[i])

AscendingByValue(events) ==
    \A i \in 1..Len(events) : \A j \in 1..Len(events) :
        i < j => Le(events[i].projectedPortfolioValue, events[j].projectedPortfolioValue)

\* C21: for each token with positive price and amount the projection emits
\* exactly one event per stage of the selected strategy whose price is
\* strictly above the current price, none for a stage at or below it, none
\* for a token with non-positive price or amount; each such event has
\* projectedPortfolioValue = portfolioTotal - amount * price + amount *
\* stagePrice and cashOutValue = amount * percentage / 100 * stagePrice; and
\* the events are returned in ascending projectedPortfolioValue
C21_StageEvents ==
    ProjectionCalled =>
        /\ SameEvents(last.result.projectedExits,
                      ClaimedEvents(SelectedStrategies(last.tokens, last.configBefore),
                                    SumSeq(ValuesOfHoldings(last.tokens))))
        /\ AscendingByValue(last.result.projectedExits)

PassedStage(s) ==
    /\ Staged(s.strategy)
    /\ \E k \in 1..Len(s.strategy.profitStages.list) :
          Le(s.strategy.profitStages.list[k].price, s.token.price)
    /\ \E k \in 1..Len(s.strategy.profitStages.list) :
          Gt(s.strategy.profitStages.list[k].price, s.token.price)

\* a portfolio with a token of no amount and a token one of whose stages is
\* already passed, projected to events of rising value
C21_Witness ==
    /\ ProjectionCalled
    /\ \E i \in 1..Len(last.tokens) : last.tokens[i].amount = Zero
    /\ \E i \in 1..Len(SelectedStrategies(last.tokens, last.configBefore)) :
          PassedStage(SelectedStrategies(last.tokens, last.configBefore)[i])
    /\ Len(last.result.projectedExits) >= 2
    /\ Lt(last.result.projectedExits[1].projectedPortfolioValue,
          last.result.projectedExits[Len(last.result.projectedExits)].projectedPortfolioValue)

(***************************************************************************)
(* C22                                                                     *)
(***************************************************************************)
ProgressFractions == <<Frac(1, 2), Frac(3, 4), Frac(9, 10), One>>

\* the price at the fraction f of the target market cap
AtShareOfTarget(token, f) ==
    Div(Mul(token.price, Mul(f, token.targetMarketCap)), token.marketCap)

\* the price at the fraction f of the way from the market cap to its target
AtShareOfDistance(token, f) ==
    Div(Mul(token.price,
            Add(token.marketCap, Mul(f, Sub(token.targetMarketCap, token.marketCap)))),
        token.marketCap)

ProgressiveCalled ==
    /\ CompareCalled
    /\ last.token # NULL
    /\ last.token.exitStrategy = "progressive"
    /\ Gt(last.token.price, Zero) /\ Gt(last.token.entryPrice, Zero)
    /\ Gt(last.token.marketCap, Zero)
    /\ Gt(last.token.targetMarketCap, last.token.marketCap)

\* C22 as the code has it: for a progressive token meeting the preconditions
\* the four stage prices are the token prices at market caps of 50%, 75%, 90%
\* and 100% of the target market cap, price * f * targetMarketCap /
\* marketCap; before the last stage this is lower than the price at the same
\* fraction of the distance from the current market cap to the target
C22_StagePricesAtShareOfTarget ==
    ProgressiveCalled =>
        /\ Len(last.result.selectedStrategy.profitStages.list) = 4
        /\ \A i \in 1..4 :
              /\ last.result.selectedStrategy.profitStages.list[i].price
                    = AtShareOfTarget(last.token, ProgressFractions[i])
              /\ Lt(ProgressFractions[i], One) =>
                    Lt(last.result.selectedStrategy.profitStages.list[i].price,
                       AtShareOfDistance(last.token, ProgressFractions[i]))

\* C22 as stated: for a progressive token meeting the preconditions the four
\* stage prices are price * (marketCap + f * (targetMarketCap - marketCap)) /
\* marketCap for f = 0.5, 0.75, 0.9, 1.0
C22_StagePricesAtShareOfDistance ==
    ProgressiveCalled =>
        /\ Len(last.result.selectedStrategy.profitStages.list) = 4
        /\ \A i \in 1..4 :
              last.result.selectedStrategy.profitStages.list[i].price
                  = AtShareOfDistance(last.token, ProgressFractions[i])

\* price 1, market cap 1M, target 10M: the first stage sells at 5, the price
\* at a market cap of 5M, and not at 5.5, the price half-way from 1M to 10M
C22_Witness ==
    /\ ProgressiveCalled
    /\ last.token.price = One
    /\ last.result.selectedStrategy.profitStages.list[1].price = Num(5)
    /\ AtShareOfDistance(last.token, Frac(1, 2)) = Frac(11, 2)

(***************************************************************************)
(* AdvancedPortfolioOptimizer (src/unnamed/part_007)                       *)
(*                                                                         *)
(* Its divisions are not guarded: besides the rationals a number is NaN,   *)
(* Infinity or -Infinity, written with a zero denominator.  The sign of a  *)
(* zero is not modelled.  An object keyed by token id is modelled as the   *)
(* sequence of its values in the order of the tokens, whose ids differ.    *)
(***************************************************************************)
NaN == <<0, 0>>
Infinity == <<1, 0>>
NegInfinity == <<-1, 0>>

Finite(x) == x[2] # 0

Signum(n) == IF n < 0 THEN -1 ELSE IF n > 0 THEN 1 ELSE 0

\* x / y of JavaScript
DivJS(x, y) ==
    IF Finite(x) /\ Finite(y)
    THEN IF y[1] # 0 THEN Div(x, y) ELSE <<Signum(x[1]), 0>>
    ELSE IF Finite(x)
    THEN IF y = NaN THEN NaN ELSE Zero
    ELSE IF Finite(y)
    THEN <<x[1] * Sign(y[1]), 0>>
    ELSE NaN

\* x * y of JavaScript
MulJS(x, y) ==
    IF Finite(x) /\ Finite(y) THEN Mul(x, y) ELSE <<Signum(x[1]) * Signum(y[1]), 0>>

\* x + y of JavaScript
AddJS(x, y) ==
    IF Finite(x) /\ Finite(y) THEN Add(x, y)
    ELSE IF ~Finite(x) /\ ~Finite(y) THEN (IF x = y THEN x ELSE NaN)
    ELSE IF Finite(x) THEN y
    ELSE x

\* Object.values(...).reduce((sum, w) => sum + w, 0)
RECURSIVE SumJS(_, _)
SumJS(sum, values) ==
    IF values = <<>> THEN sum ELSE SumJS(AddJS(sum, Head(values)), Tail(values))

\* calculateExpectedReturns, of one token
ExpectedReturn(token) ==
    IF Gt(Mul(token.amount, token.entryPrice), Zero)
    THEN Div(Sub(Mul(token.amount, token.price), Mul(token.amount, token.entryPrice)),
             Mul(token.amount, token.entryPrice))
    ELSE Zero

\* calculateTokenRisks, of one token; market caps in billions
TokenRisk(token) ==
    Mul(IF Gt(token.marketCap, Zero) THEN Min(One, Div(One, token.marketCap)) ELSE One,
        IF token.conviction = "high" THEN Frac(1, 10)
        ELSE IF token.conviction = "medium" THEN Frac(2, 10)
        ELSE Frac(3, 10))

\* calculateRiskAdjustedReturns, of one token
RiskAdjustedReturn(token) ==
    IF Gt(TokenRisk(token), Zero) THEN Div(ExpectedReturn(token), TokenRisk(token)) ELSE Zero

\* weights[token.id] = (value / total) * 100
ShareWeights(values, total) ==
    [i \in 1..Len(values) |-> MulJS(DivJS(values[i], total), Hundred)]

ProportionalWeights(values) == ShareWeights(values, SumJS(Zero, values))

\* 100 / this.tokens.length for every token
EqualWeights(tokens) == [i \in 1..Len(tokens) |-> Div(Hundred, Num(Len(tokens)))]

normalizeWeights(weights) ==
    IF SumJS(Zero, weights) = Zero
    THEN weights
    ELSE ShareWeights(weights, SumJS(Zero, weights))

GoalTypes == {"maximize_return", "minimize_risk", "maximize_sharpe", "momentum"}

calculateOptimalWeights(tokens, goalType) ==
    normalizeWeights(
        CASE goalType = "maximize_return" ->
                 ProportionalWeights([i \in 1..Len(tokens) |-> ExpectedReturn(tokens[i])])
          [] goalType = "minimize_risk" -> EqualWeights(tokens)
          [] goalType = "maximize_sharpe" ->
                 ProportionalWeights([i \in 1..Len(tokens) |-> RiskAdjustedReturn(tokens[i])])
          [] OTHER -> EqualWeights(tokens))

\* Math.random() * 0.8 - 0.4 lies in [-0.4, 0.4)
RandomCorrelations == {Frac(-4, 10), Frac(3, 10)}

\* the inner forEach: the row of token1, one entry per symbol
RECURSIVE CorrelationRow(_, _, _, _)
CorrelationRow(row, token1, tokens, draws) ==
    IF tokens = <<>> THEN row
    ELSE CorrelationRow(
            (Head(tokens).symbol :>
                 (IF token1.symbol = Head(tokens).symbol THEN One ELSE Head(draws))) @@ row,
            token1, Tail(tokens), Tail(draws))

\* the outer forEach: matrix[token1.symbol] = {} and then its row
RECURSIVE CorrelationRows(_, _, _, _)
CorrelationRows(matrix, rest, tokens, draws) ==
    IF rest = <<>> THEN matrix
    ELSE CorrelationRows(
            (Head(rest).symbol :> CorrelationRow(<<>>, Head(rest), tokens, Head(draws)))
                @@ matrix,
            Tail(rest), tokens, Tail(draws))

\* calculateCorrelationMatrix(), draws[i][j] being the value of Math.random()
\* * 0.8 - 0.4 for the i-th token1 and the j-th token2
calculateCorrelationMatrix(tokens, draws) == CorrelationRows(<<>>, tokens, tokens, draws)

(***************************************************************************)
(* The optimizer's calls                                                   *)
(***************************************************************************)
MaxOptimized == 2

OptimizedToken(id, symbol, conviction, price, entryPrice, marketCap) ==
    [id |-> id, symbol |-> symbol, conviction |-> conviction, amount |-> One,
     price |-> Num(price), entryPrice |-> Num(entryPrice), marketCap |-> Num(marketCap)]

\* a token that doubled, one that tripled under the same symbol, one that
\* halved, one that did not move and one that lost everything
OptimizerTokens ==
    {OptimizedToken("1", "UP", "medium", 2, 1, 2),
     OptimizedToken("2", "UP", "high", 3, 1, 1),
     OptimizedToken("3", "DOWN", "low", 1, 2, 4),
     OptimizedToken("4", "FLAT", "medium", 1, 1, 0),
     OptimizedToken("5", "GONE", "high", 0, 1, 1)}

OptimizerPortfolios ==
    {tokens \in SeqsUpTo(OptimizerTokens, MaxOptimized) : Cardinality(Ids(tokens)) = Len(tokens)}

Draws(n) == [1..n -> [1..n -> RandomCorrelations]]

\* new AdvancedPortfolioOptimizer(tokens).calculateOptimalWeights(goal), as
\* optimizeMeanVariance calls it
CalculateOptimalWeights ==
    /\ last = Idle
    /\ \E tokens \in OptimizerPortfolios, goalType \in GoalTypes :
            last' = [op |-> "calculateOptimalWeights", tokens |-> tokens, goal |-> goalType,
                     result |-> calculateOptimalWeights(tokens, goalType)]
    /\ UNCHANGED STRATEGY_CONFIG

\* new AdvancedPortfolioOptimizer(tokens).generatePortfolioHeatmap(): its
\* correlations
GeneratePortfolioHeatmap ==
    /\ last = Idle
    /\ \E tokens \in OptimizerPortfolios :
        \E draws \in Draws(Len(tokens)) :
            last' = [op |-> "generatePortfolioHeatmap", tokens |-> tokens,
                     result |-> [correlations |-> calculateCorrelationMatrix(tokens, draws)]]
    /\ UNCHANGED STRATEGY_CONFIG

NextOptimizer ==
    \/ CalculateOptimalWeights
    \/ GeneratePortfolioHeatmap
    \/ Return

SpecOptimizer == Init /\ [][NextOptimizer]_vars

(***************************************************************************)
(* rebalancePortfolio (src/unnamed/part_008)                               *)
(*                                                                         *)
(* The texts of the reasons are not modelled.  The summary of a result     *)
(* with actions is the pair of counts it is formatted from.                *)
(***************************************************************************)
\* !x of a number
Falsy(x) == x = Zero

NeedTwoTokens(strategy) ==
    [strategy |-> strategy, actions |-> <<>>, totalValue |-> Zero, isBalanced |-> TRUE,
     summary |-> "Need at least 2 tokens to rebalance"]

NoValue(strategy) ==
    [strategy |-> strategy, actions |-> <<>>, totalValue |-> Zero, isBalanced |-> TRUE,
     summary |-> "Portfolio has no value"]

LossPercent(token) ==
    Mul(Div(Sub(token.entryPrice, token.price), token.entryPrice), Hundred)

IsUnderperforming(token) ==
    IF Falsy(token.entryPrice) \/ Le(token.entryPrice, Zero)
       \/ Falsy(token.price) \/ Le(token.price, Zero)
    THEN FALSE
    ELSE Ge(LossPercent(token), Num(25))

IsHighPotential(token) ==
    IF Falsy(token.marketCap) \/ Falsy(token.targetMarketCap)
       \/ Le(token.marketCap, Zero) \/ Le(token.targetMarketCap, Zero)
    THEN FALSE
    ELSE Ge(Div(token.targetMarketCap, token.marketCap), Num(3))

CurrentWeight(token, totalValue) ==
    Mul(Div(Mul(token.amount, token.price), totalValue), Hundred)

TargetWeight(tokens) == Div(Hundred, Num(Len(tokens)))

OverWeightedTokens(tokens, totalValue) ==
    SelectSeq(tokens, LAMBDA token : Gt(CurrentWeight(token, totalValue),
                                        Mul(TargetWeight(tokens), Frac(3, 2))))

UnderWeightedTokens(tokens, totalValue) ==
    SelectSeq(tokens, LAMBDA token : Lt(CurrentWeight(token, totalValue),
                                        Mul(TargetWeight(tokens), Frac(1, 2))))

\* reduce without an initial value: the first element, then the others
RECURSIVE HighestValue(_, _)
HighestValue(worst, rest) ==
    IF rest = <<>> THEN worst
    ELSE HighestValue(IF Gt(Mul(Head(rest).amount, Head(rest).price),
                            Mul(worst.amount, worst.price))
                      THEN Head(rest) ELSE worst,
                      Tail(rest))

RECURSIVE LowestValue(_, _)
LowestValue(best, rest) ==
    IF rest = <<>> THEN best
    ELSE LowestValue(IF Lt(Mul(Head(rest).amount, Head(rest).price),
                           Mul(best.amount, best.price))
                     THEN Head(rest) ELSE best,
                     Tail(rest))

RECURSIVE WorstPerformer(_, _)
WorstPerformer(worst, rest) ==
    IF rest = <<>> THEN worst
    ELSE WorstPerformer(
            IF Falsy(worst.entryPrice) \/ Falsy(worst.price)
               \/ Falsy(Head(rest).entryPrice) \/ Falsy(Head(rest).price)
            THEN Head(rest)
            ELSE IF Gt(LossPercent(Head(rest)), LossPercent(worst))
            THEN Head(rest) ELSE worst,
            Tail(rest))

RECURSIVE HighestPotential(_, _)
HighestPotential(best, rest) ==
    IF rest = <<>> THEN best
    ELSE HighestPotential(
            IF Falsy(best.targetMarketCap) \/ Falsy(best.marketCap)
               \/ Falsy(Head(rest).targetMarketCap) \/ Falsy(Head(rest).marketCap)
            THEN Head(rest)
            ELSE IF Gt(Div(Head(rest).targetMarketCap, Head(rest).marketCap),
                       Div(best.targetMarketCap, best.marketCap))
            THEN Head(rest) ELSE best,
            Tail(rest))

RebalanceAction(token, action, amount) ==
    [token |-> IF token.name = "" THEN "Unknown" ELSE token.name,
     symbol |-> IF token.symbol = "" THEN "UNK" ELSE token.symbol,
     action |-> action, amount |-> amount]

\* a SELL of part of worstToken's value and a BUY of bestToken for as much
Rotation(worstToken, bestToken, part) ==
    <<RebalanceAction(worstToken, "SELL", Mul(Mul(worstToken.amount, worstToken.price), part)),
      RebalanceAction(bestToken, "BUY", Mul(Mul(worstToken.amount, worstToken.price), part))>>

\* the equal-weight recommendation
WeightRotation(overWeightedTokens, underWeightedTokens) ==
    IF overWeightedTokens # <<>> /\ underWeightedTokens # <<>>
    THEN Rotation(HighestValue(Head(overWeightedTokens), Tail(overWeightedTokens)),
                  LowestValue(Head(underWeightedTokens), Tail(underWeightedTokens)),
                  Frac(3, 10))
    ELSE <<>>

RotationBetween(worstToken, bestToken) ==
    IF /\ ~Falsy(worstToken.amount) /\ ~Falsy(worstToken.price)
       /\ bestToken.name # "" /\ bestToken.symbol # ""
    THEN Rotation(worstToken, bestToken, Frac(1, 2))
    ELSE <<>>

\* the rotation from the worst performer to the highest potential
PotentialRotation(underperformingTokens, highPotentialTokens) ==
    RotationBetween(WorstPerformer(Head(underperformingTokens), Tail(underperformingTokens)),
                    HighestPotential(Head(highPotentialTokens), Tail(highPotentialTokens)))

RotationActions(tokens, totalValue, underperformingTokens, highPotentialTokens) ==
    (IF underperformingTokens = <<>> /\ highPotentialTokens = <<>> /\ Len(tokens) >= 2
     THEN WeightRotation(OverWeightedTokens(tokens, totalValue),
                         UnderWeightedTokens(tokens, totalValue))
     ELSE <<>>)
    \o (IF underperformingTokens # <<>> /\ highPotentialTokens # <<>>
        THEN PotentialRotation(underperformingTokens, highPotentialTokens)
        ELSE <<>>)

\* getSummary(actions, strategy)
getSummary(actions) ==
    IF actions = <<>>
    THEN "Portfolio is balanced - no actions needed"
    ELSE [buys |-> Len(SelectSeq(actions, LAMBDA a : a.action = "BUY")),
          sells |-> Len(SelectSeq(actions, LAMBDA a : a.action = "SELL"))]

RotationResult(actions, totalValue) ==
    [strategy |-> "smart_rotation", actions |-> actions, totalValue |-> totalValue,
     isBalanced |-> (actions = <<>>), summary |-> getSummary(actions)]

rebalancePortfolio(tokens, strategy) ==
    IF Len(tokens) < 2 THEN NeedTwoTokens(strategy)
    ELSE IF TotalValue(tokens) = Zero THEN NoValue(strategy)
    ELSE RotationResult(RotationActions(tokens, TotalValue(tokens),
                                        SelectSeq(tokens, IsUnderperforming),
                                        SelectSeq(tokens, IsHighPotential)),
                        TotalValue(tokens))

(***************************************************************************)
(* The rotation call                                                       *)
(***************************************************************************)
MaxRotated == 3

RotatedToken(name, amount, price, entryPrice, marketCap, targetMarketCap) ==
    [id |-> name, name |-> name, symbol |-> name, amount |-> amount, price |-> Num(price),
     entryPrice |-> Num(entryPrice), marketCap |-> Num(marketCap),
     targetMarketCap |-> Num(targetMarketCap)]

\* a token down 50% with little potential; one at its entry price with a 5x
\* potential; one down 75% with a 10x potential; a large, a middling and a
\* small holding without entry price or market caps; one down 50% of which
\* nothing is held; and one without a price
RotatedTokens ==
    {RotatedToken("LAGGARD", One, 1, 2, 1, 2),
     RotatedToken("GEM", One, 1, 1, 1, 5),
     RotatedToken("FALLEN", One, 1, 4, 1, 10),
     RotatedToken("LARGE", Num(20), 1, 0, 0, 0),
     RotatedToken("MIDDLE", One, 1, 0, 0, 0),
     RotatedToken("SMALL", Frac(1, 10), 1, 0, 0, 0),
     RotatedToken("SOLD", Zero, 1, 2, 1, 2),
     RotatedToken("UNPRICED", One, 0, 1, 0, 0)}

RotatedPortfolios ==
    {tokens \in SeqsUpTo(RotatedTokens, MaxRotated) : Cardinality(Ids(tokens)) = Len(tokens)}

RotationStrategies == {"smart_rotation", "equal_weight"}

\* rebalancePortfolio(tokens, strategy)
RebalancePortfolio ==
    /\ last = Idle
    /\ \E tokens \in RotatedPortfolios, strategy \in RotationStrategies :
            last' = [op |-> "rebalancePortfolio", tokens |-> tokens, strategy |-> strategy,
                     result |-> rebalancePortfolio(tokens, strategy)]
    /\ UNCHANGED STRATEGY_CONFIG

NextRotation ==
    \/ RebalancePortfolio
    \/ Return

SpecRotation == Init /\ [][NextRotation]_vars

(***************************************************************************)
(* fetchWithRetry (src/services/api.ts)                                    *)
(*                                                                         *)
(* An asynchronous call: `last` holds the call in progress, the attempts   *)
(* made so far and the retries left to the innermost invocation.  The      *)
(* timer of an attempt aborts its fetch, which then rejects like any other *)
(* failed fetch.  An inner invocation is returned without await, so its    *)
(* rejection settles the outer promise and is not caught again.            *)
(***************************************************************************)
MaxRetries == 2

Statuses == {200, 404, 500, 503}

Errors == {"TypeError", "AbortError"}

Response(status) == [status |-> status]

Thrown(error) == [error |-> error]

IsResponse(outcome) == "status" \in DOMAIN outcome

\* res.ok
Ok(res) == res.status >= 200 /\ res.status <= 299

\* the retry on a response, were any failure retried
RetryOnAnyFailure(res, retries) == ~Ok(res) /\ retries > 0

\* !res.ok && retries > 0 && res.status >= 500
RetryOnResponse(res, retries) == ~Ok(res) /\ retries > 0 /\ res.status >= 500

\* fetchWithRetry(url, options, retries): the first fetch is sent
FetchWithRetry ==
    /\ last = Idle
    /\ \E retries \in 0..MaxRetries :
            last' = [op |-> "fetchWithRetry", called |-> retries, retries |-> retries,
                     attempts |-> <<>>, pc |-> "fetch"]
    /\ UNCHANGED STRATEGY_CONFIG

Fetching == last.op = "fetchWithRetry" /\ last.pc = "fetch"

\* await fetch(...) yields a response: it is retried or returned
FetchResolves ==
    /\ Fetching
    /\ \E status \in Statuses :
            last' = IF RetryOnResponse(Response(status), last.retries)
                    THEN [last EXCEPT !.attempts = Append(@, Response(status)),
                                      !.retries = @ - 1]
                    ELSE [last EXCEPT !.attempts = Append(@, Response(status)),
                                      !.pc = "returned"]
    /\ UNCHANGED STRATEGY_CONFIG

\* await fetch(...) throws, of itself or aborted by the timer: it is retried
\* or thrown again
FetchRejects ==
    /\ Fetching
    /\ \E error \in Errors :
            last' = IF last.retries > 0
                    THEN [last EXCEPT !.attempts = Append(@, Thrown(error)),
                                      !.retries = @ - 1]
                    ELSE [last EXCEPT !.attempts = Append(@, Thrown(error)),
                                      !.pc = "thrown"]
    /\ UNCHANGED STRATEGY_CONFIG

Settled == last.op = "fetchWithRetry" /\ last.pc \in {"returned", "thrown"}

\* the caller takes the response or the error
FetchSettles ==
    /\ Settled
    /\ last' = Idle
    /\ UNCHANGED STRATEGY_CONFIG

NextFetch ==
    \/ FetchWithRetry
    \/ FetchResolves
    \/ FetchRejects
    \/ FetchSettles

\* every attempt completes or fails
SpecFetch == Init /\ [][NextFetch]_vars /\ WF_vars(FetchResolves \/ FetchRejects)

(***************************************************************************)
(* The token list of App (src/App.tsx)                                     *)
(*                                                                         *)
(* `last` holds the state of the component: its tokens, the needsUpdate    *)
(* trigger, the isUpdating flag, the pending confirmation and the price    *)
(* refreshes awaiting batchFetchMarketData, each with the token list its   *)
(* closure was created with.  A callback sees the tokens of the render it  *)
(* was created in; setTokens(value) replaces the list.  Toasts, the other  *)
(* modals, lastUpdated and the one-time migration are not modelled.  A     *)
(* token is its id, its pair address, the amount the user enters and the   *)
(* price the market data overwrites.  `completed` records the last         *)
(* completed refresh: the list before and after it, and whether a handler  *)
(* of the user ran while it was awaiting.                                  *)
(***************************************************************************)
MaxPending == 1

Amounts == {1, 2}

Prices == {1, 2}

\* the tokens the user can save: "a" is listed on a chain, "b" is not
PairAddresses == [a |-> "0xa", b |-> ""]

SavedTokens ==
    {[id |-> id, pairAddress |-> PairAddresses[id], amount |-> amount, price |-> price] :
        id \in {"a", "b"}, amount \in Amounts, price \in Prices}

NoRefresh == [done |-> FALSE]

InitApp ==
    /\ STRATEGY_CONFIG = InitialStrategyConfig
    /\ last = [op |-> "App", tokens |-> <<>>, needsUpdate |-> FALSE, isUpdating |-> FALSE,
               confirm |-> <<>>, refreshes |-> <<>>, completed |-> NoRefresh]

\* tokens.filter(t => t.chain && t.pairAddress)
Updatable(t) == t.pairAddress # ""

\* a handler of the user ran while the refreshes were awaiting
Overtaken(refreshes) == [i \in 1..Len(refreshes) |-> [refreshes[i] EXCEPT !.changed = TRUE]]

\* updatePrices(): up to the await of batchFetchMarketData
StartRefresh(app) ==
    IF app.tokens = <<>>
    THEN [app EXCEPT !.isUpdating = FALSE, !.completed = NoRefresh]
    ELSE IF SelectSeq(app.tokens, Updatable) = <<>>
    THEN [app EXCEPT !.isUpdating = FALSE, !.completed = NoRefresh]
    ELSE [app EXCEPT !.isUpdating = TRUE, !.completed = NoRefresh,
                     !.refreshes = Append(@, [tokens |-> app.tokens, changed |-> FALSE])]

\* the interval, the return to the tab or the refresh button calls updatePrices
UpdatePrices ==
    /\ last.op = "App"
    /\ Len(last.refreshes) < MaxPending
    /\ last' = StartRefresh(last)
    /\ UNCHANGED STRATEGY_CONFIG

\* the effect on needsUpdate: updatePrices() and the trigger is reset
NeedsUpdateEffect ==
    /\ last.op = "App"
    /\ last.needsUpdate
    /\ Len(last.refreshes) < MaxPending
    /\ last' = [StartRefresh(last) EXCEPT !.needsUpdate = FALSE]
    /\ UNCHANGED STRATEGY_CONFIG

\* { ...originalToken, ...update } for a token whose pair address is in updates
ApplyUpdate(originalToken, updates) ==
    IF originalToken.pairAddress # "" /\ originalToken.pairAddress \in DOMAIN updates
    THEN [originalToken EXCEPT !.price = updates[originalToken.pairAddress]]
    ELSE originalToken

FinalTokens(tokens, updates) == [i \in 1..Len(tokens) |-> ApplyUpdate(tokens[i], updates)]

\* the maps batchFetchMarketData can yield for the tokens to update
UpdateMaps(tokens) ==
    {<<>>} \cup
    UNION {[{tokens[i].pairAddress} -> Prices] : i \in {j \in 1..Len(tokens) : Updatable(tokens[j])}}

Without(refreshes, k) == [i \in 1..(Len(refreshes) - 1) |-> refreshes[IF i < k THEN i ELSE i + 1]]

\* batchFetchMarketData resolves: setTokens(finalTokens), setIsUpdating(false)
BatchFetchResolves ==
    /\ last.op = "App"
    /\ \E k \in 1..Len(last.refreshes) :
        \E updates \in UpdateMaps(last.refreshes[k].tokens) :
            last' = [last EXCEPT
                        !.tokens = FinalTokens(last.refreshes[k].tokens, updates),
                        !.isUpdating = FALSE,
                        !.refreshes = Without(@, k),
                        !.completed = [done |-> TRUE, changed |-> last.refreshes[k].changed,
                                       before |-> last.tokens,
                                       after |-> FinalTokens(last.refreshes[k].tokens, updates)]]
    /\ UNCHANGED STRATEGY_CONFIG

\* batchFetchMarketData rejects: the catch, then setIsUpdating(false)
BatchFetchRejects ==
    /\ last.op = "App"
    /\ \E k \in 1..Len(last.refreshes) :
            last' = [last EXCEPT
                        !.isUpdating = FALSE,
                        !.refreshes = Without(@, k),
                        !.completed = [done |-> TRUE, changed |-> last.refreshes[k].changed,
                                       before |-> last.tokens, after |-> last.tokens]]
    /\ UNCHANGED STRATEGY_CONFIG

\* tokens.map(t => t.id === token.id ? token : t) or [...tokens, token]
SaveInto(tokens, token) ==
    IF \E i \in 1..Len(tokens) : tokens[i].id = token.id
    THEN [i \in 1..Len(tokens) |-> IF tokens[i].id = token.id THEN token ELSE tokens[i]]
    ELSE Append(tokens, token)

\* handleSaveToken(token)
HandleSaveToken ==
    /\ last.op = "App"
    /\ \E token \in SavedTokens :
            last' = [last EXCEPT !.tokens = SaveInto(@, token),
                                 !.needsUpdate = TRUE,
                                 !.refreshes = Overtaken(@),
                                 !.completed = NoRefresh]
    /\ UNCHANGED STRATEGY_CONFIG

\* handleRemoveToken(tokenId): the confirmation is put up, its onConfirm
\* closing over the tokens of this render
HandleRemoveToken ==
    /\ last.op = "App"
    /\ \E i \in 1..Len(last.tokens) :
            last' = [last EXCEPT !.confirm = <<[tokenId |-> last.tokens[i].id,
                                               tokens |-> last.tokens]>>,
                                 !.completed = NoRefresh]
    /\ UNCHANGED STRATEGY_CONFIG

\* onConfirm(): setTokens(tokens.filter(t => t.id !== tokenId))
ConfirmRemoval ==
    /\ last.op = "App"
    /\ last.confirm # <<>>
    /\ last' = [last EXCEPT
                    !.tokens = SelectSeq(last.confirm[1].tokens,
                                         LAMBDA t : t.id # last.confirm[1].tokenId),
                    !.confirm = <<>>,
                    !.refreshes = Overtaken(@),
                    !.completed = NoRefresh]
    /\ UNCHANGED STRATEGY_CONFIG

NextApp ==
    \/ UpdatePrices
    \/ NeedsUpdateEffect
    \/ BatchFetchResolves
    \/ BatchFetchRejects
    \/ HandleSaveToken
    \/ HandleRemoveToken
    \/ ConfirmRemoval

SpecApp == InitApp /\ [][NextApp]_vars

(***************************************************************************)
(* C23                                                                     *)
(***************************************************************************)
HeatmapCalled == last.op = "generatePortfolioHeatmap"

\* C23: the correlation matrix returned in generatePortfolioHeatmap is
\* symmetric for every token list, matrix[a][b] = matrix[b][a] for all token
\* symbols a and b, with matrix[a][a] = 1
C23_SymmetricMatrix ==
    HeatmapCalled =>
        \A a \in DOMAIN last.result.correlations :
            /\ last.result.correlations[a][a] = One
            /\ \A b \in DOMAIN last.result.correlations :
                  last.result.correlations[a][b] = last.result.correlations[b][a]

(***************************************************************************)
(* C27                                                                     *)
(***************************************************************************)
WeightsCalled == last.op = "calculateOptimalWeights"

WithinHundred(w) == Finite(w) /\ Ge(w, Zero) /\ Le(w, Hundred)

\* C27: for every token list with positive total value and every goal type
\* the target weights returned by calculateOptimalWeights are each within
\* 0..100 and sum to 100, also when some tokens have negative returns or the
\* returns sum to 0
C27_WeightsNormalized ==
    (WeightsCalled /\ Gt(SumSeq(ValuesOfHoldings(last.tokens)), Zero)) =>
        /\ \A i \in 1..Len(last.result) : WithinHundred(last.result[i])
        /\ SumJS(Zero, last.result) = Hundred

(***************************************************************************)
(* C28                                                                     *)
(***************************************************************************)
RotationCalled == last.op = "rebalancePortfolio"

OneSellOneBuy(actions) ==
    /\ Len(actions) = 2
    /\ Cardinality({i \in 1..2 : actions[i].action = "SELL"}) = 1
    /\ Cardinality({i \in 1..2 : actions[i].action = "BUY"}) = 1
    /\ actions[1].amount = actions[2].amount

DifferentTokens(actions) ==
    actions[1].token # actions[2].token \/ actions[1].symbol # actions[2].symbol

\* C28: rebalancePortfolio returns either no actions (isBalanced = true) or
\* exactly one SELL and one BUY action of equal amount (isBalanced = false),
\* and the SELL and the BUY never refer to the same token
C28_OneRotation ==
    RotationCalled =>
        \/ last.result.actions = <<>> /\ last.result.isBalanced
        \/ /\ ~last.result.isBalanced
           /\ OneSellOneBuy(last.result.actions)
           /\ DifferentTokens(last.result.actions)

(***************************************************************************)
(* C30                                                                     *)
(***************************************************************************)
FetchCalled == last.op = "fetchWithRetry"

\* an attempt after which the code tries again
Retriable(outcome) == ~IsResponse(outcome) \/ outcome.status >= 500

AttemptsAsClaimed ==
    /\ Len(last.attempts) <= last.called + 1
    /\ \A i \in 1..Len(last.attempts) :
          (i < Len(last.attempts) \/ Fetching) => Retriable(last.attempts[i])
    /\ Fetching => Len(last.attempts) <= last.called
    /\ Settled =>
          /\ last.attempts # <<>>
          /\ (last.pc = "returned") = IsResponse(last.attempts[Len(last.attempts)])
          /\ Retriable(last.attempts[Len(last.attempts)]) =>
                Len(last.attempts) = last.called + 1

\* C30: fetchWithRetry called with retries = r always terminates, after at
\* most r + 1 fetch attempts, given every attempt itself completes or fails:
\* it tries again only after a thrown error or a response with status >= 500,
\* returns a response with status < 500 without retrying, and after the
\* last attempt returns the last response or rethrows the last error
C30_RetriesTerminate ==
    /\ [](FetchCalled => AttemptsAsClaimed)
    /\ (FetchCalled ~> Settled)

\* called with 2 retries: an error, a 503, and the 500 of the third attempt
\* is returned
C30_Witness ==
    /\ Settled
    /\ last.called = 2
    /\ last.attempts = <<Thrown("AbortError"), Response(503), Response(500)>>
    /\ last.pc = "returned"

(***************************************************************************)
(* C29                                                                     *)
(***************************************************************************)
\* a token list without its market data
UserData(tokens) ==
    [i \in 1..Len(tokens) |-> [id |-> tokens[i].id, pairAddress |-> tokens[i].pairAddress,
                               amount |-> tokens[i].amount]]

\* C29: if the user adds, edits or removes a token while a price refresh is
\* awaiting batchFetchMarketData, then after the refresh completes the token
\* list still contains that change: the refresh only overwrites the market
\* data of the tokens and never drops an added token, restores a removed one
\* or reverts an edit
C29_RefreshKeepsUserChanges ==
    (last.op = "App" /\ last.completed.done /\ last.completed.changed) =>
        UserData(last.completed.after) = UserData(last.completed.before)

(***************************************************************************)
(* C24                                                                     *)
(***************************************************************************)
ValidMarketData(token) ==
    /\ token # NULL
    /\ Gt(token.marketCap, Zero) /\ Gt(token.targetMarketCap, Zero)
    /\ Gt(token.entryPrice, Zero)

\* the benchmark: the whole amount sold at the target price
Benchmark(token, targetPrice) == Mul(token.amount, targetPrice)

\* what the tolerance on the amount is worth at the target price
ToleranceAt(targetPrice) == Mul(Frac(1, 100000), targetPrice)

\* total exceeds the benchmark by no more than the tolerance is worth
WithinToleranceOf(total, benchmark, targetPrice) ==
    Le(total, benchmark) \/ Le(Sub(total, benchmark), ToleranceAt(targetPrice))

\* the stages sold more than the holding
Oversold(strategy, token) ==
    /\ strategy.profitStages.defined
    /\ Gt(SumSeq(AmountsOf(strategy.profitStages.list)), token.amount)

\* C24 as the code has it: for every token with marketCap > 0,
\* targetMarketCap > 0 and entryPrice > 0 and every stage list with
\* non-negative percentages the staged totalExitValue exceeds the benchmark
\* amount * targetPrice by at most 1e-5 * targetPrice; compareStrategies
\* reports winner = 'selectedStrategy' when the two totals are equal, and
\* also when the stages sold more than the holding, within the tolerance,
\* and so brought more than the benchmark
C24_BenchmarkWithinTolerance ==
    /\ (StrategyCalled /\ ValidMarketData(last.token)) =>
          WithinToleranceOf(last.result.totalExitValue,
                            Benchmark(last.token, last.result.targetPrice),
                            last.result.targetPrice)
    /\ (CompareCalled /\ ValidMarketData(last.token)
        /\ last.result.winner = "selectedStrategy") =>
          \/ last.result.selectedStrategy.totalExitValue = last.result.allAtOnce.totalExitValue
          \/ /\ Oversold(last.result.selectedStrategy, last.token)
             /\ Gt(last.result.selectedStrategy.totalExitValue,
                   last.result.allAtOnce.totalExitValue)
             /\ WithinToleranceOf(last.result.selectedStrategy.totalExitValue,
                                  last.result.allAtOnce.totalExitValue,
                                  last.result.allAtOnce.targetPrice)

\* C24 as stated: the staged totalExitValue never exceeds the benchmark
\* beyond the tolerance; hence compareStrategies reports winner =
\* 'selectedStrategy' only when the two totals are equal
C24_WinsOnlyOnEqualTotals ==
    /\ (StrategyCalled /\ ValidMarketData(last.token)) =>
          WithinToleranceOf(last.result.totalExitValue,
                            Benchmark(last.token, last.result.targetPrice),
                            last.result.targetPrice)
    /\ (CompareCalled /\ ValidMarketData(last.token)
        /\ last.result.winner = "selectedStrategy") =>
          last.result.selectedStrategy.totalExitValue = last.result.allAtOnce.totalExitValue

\* 50% and 50.05% of 0.01 tokens, both sold at the target price 6: the
\* stages sell 0.010005 tokens for 0.06003 and win over the benchmark 0.06
C24_Witness ==
    /\ CompareCalled
    /\ ValidMarketData(last.token)
    /\ last.token = SmallToken
    /\ last.result.winner = "selectedStrategy"
    /\ last.result.selectedStrategy.totalExitValue = Frac(6003, 100000)
    /\ Oversold(last.result.selectedStrategy, last.token)
    /\ Gt(last.result.selectedStrategy.totalExitValue, last.result.allAtOnce.totalExitValue)

(***************************************************************************)
(* C25                                                                     *)
(***************************************************************************)
ExitPricesNotBelowPrice(token, stages) ==
    \A i \in 1..Len(stages) : Ge(Mul(token.entryPrice, stages[i].multiplier), token.price)

MultipliersNonDecreasing(stages) ==
    \A i \in 1..Len(stages) : \A j \in i..Len(stages) :
        Le(stages[i].multiplier, stages[j].multiplier)

DynamicStrategyTypes == {"ladder", "conservative", "moonOrBust", "kelly"}

\* C25: for every token with positive price, entryPrice, marketCap and
\* targetMarketCap > marketCap, every stage produced by
\* calculateDynamicStages for ladder, conservative, moonOrBust and kelly has
\* an exit price entryPrice * multiplier that is not below the token's
\* current price, and multipliers are non-decreasing along the stage list.
C25_ExitPricesAbovePrice ==
    (DynamicStagesCalled /\ AllPositive(last.token)
     /\ Gt(last.token.targetMarketCap, last.token.marketCap)
     /\ last.strategyType \in DynamicStrategyTypes) =>
        /\ ExitPricesNotBelowPrice(last.token, last.result)
        /\ MultipliersNonDecreasing(last.result)

\* what the code keeps: the multipliers are non-decreasing
DynamicMultipliersNonDecreasing ==
    (DynamicStagesCalled /\ AllPositive(last.token)
     /\ Gt(last.token.targetMarketCap, last.token.marketCap)
     /\ last.strategyType \in DynamicStrategyTypes) =>
        MultipliersNonDecreasing(last.result)

(***************************************************************************)
(* C26                                                                     *)
(***************************************************************************)
StageAmount(amount, stage) == Mul(amount, Div(stage.percentage, Hundred))

\* the stage's amount exceeds the still-unsold amount by more than 1e-5
ExceedsUnsold(amount, stage, unsold) ==
    Gt(Sub(StageAmount(amount, stage), unsold), EPSILON)

\* the input stages that are not skipped, in order, each processed after the
\* ones before it whether they were skipped or not
RECURSIVE NotSkipped(_, _, _)
NotSkipped(stages, amount, unsold) ==
    IF stages = <<>>
    THEN <<>>
    ELSE IF ExceedsUnsold(amount, Head(stages), unsold)
         THEN NotSkipped(Tail(stages), amount, unsold)
         ELSE <<Head(stages)>> \o
              NotSkipped(Tail(stages), amount,
                         Sub(unsold, StageAmount(amount, Head(stages))))

AmountsOfStages(stages, amount) ==
    [i \in 1..Len(stages) |-> StageAmount(amount, stages[i])]

\* C26: in calculateTokenStrategy a stage whose amount (amount * percentage
\* / 100) exceeds the still-unsold amount by more than 1e-5 is skipped
\* entirely: it is not emitted in profitStages, adds nothing to
\* totalExitValue and leaves remainingAmount unchanged, while later stages
\* are still processed and remainingAmount never drops below -1e-5.
C26_OversoldStageSkipped ==
    (StrategyCalled /\ last.loop.ran) =>
        LET amount == TokenFields(last.token).amount
            kept == NotSkipped(last.stages.list, amount, amount)
            emitted == last.result.profitStages.list
        IN  /\ PercentagesOf(emitted) = PercentagesOf(kept)
            /\ AmountsOf(emitted) = AmountsOfStages(kept, amount)
            /\ \A i \in 1..Len(emitted) :
                  emitted[i].value = Mul(emitted[i].amount, emitted[i].price)
            /\ last.result.totalExitValue =
                  Add(SumSeq(ValuesOf(emitted)),
                      IF Gt(last.loop.remainingAmount, EPSILON)
                      THEN Mul(last.loop.remainingAmount, last.result.targetPrice)
                      ELSE Zero)
            /\ last.loop.remainingAmount = Sub(amount, SumSeq(AmountsOfStages(kept, amount)))
            /\ Ge(last.loop.remainingAmount, Sub(Zero, EPSILON))

\* 60%, 50% and 25% of 100 tokens: the 50% stage exceeds the 40 left and is
\* skipped, the 25% stage after it is sold, and 15 tokens remain
C26_Witness ==
    /\ StrategyCalled
    /\ last.loop.ran
    /\ last.stages.list = OversoldInBetween
    /\ TokenFields(last.token).amount = Num(100)
    /\ PercentagesOf(last.result.profitStages.list) = <<Num(60), Num(25)>>
    /\ last.loop.remainingAmount = Num(15)

====
